---- MODULE Spec2Model ----
(***************************************************************************)
(* Reconciliation pipeline of the monthly billing / cash-application       *)
(* system: the Cash Matching / Journal Generator (apply_cash_matching.py), *)
(* the Bank Transaction Preprocessor (prep_bank_txn.py), the Match         *)
(* Suggestion Normalizer (convert_match_suggestion.py), the entry points   *)
(* that run the pipeline stages, and the validators.                       *)
(*                                                                         *)
(* Numbers.  Match scores are floats in the source; here a score is the    *)
(* integer number of tenths (0.7 is 7, 1.0 is 10).  NaN, which pandas      *)
(* produces for an empty CSV cell, is the value NaN below; every           *)
(* comparison with NaN is false, as in IEEE 754.  Money amounts are        *)
(* integers (yen).  Account names are transliterated: "cash" is 現金,      *)
(* "receivable" is 売掛金, "sales" is 売上, "pending" is 未決算.           *)
(***************************************************************************)
EXTENDS Integers, Sequences, FiniteSets, TLC

(***************************************************************************)
(* Bounds of the model.                                                    *)
(***************************************************************************)
MaxSuggestions == 2

(***************************************************************************)
(* Program constants.                                                      *)
(***************************************************************************)
MATCH_SCORE_MIN == 0
MATCH_SCORE_MAX == 10
DEFAULT_THRESHOLD == 7
NaN == 9999
Absent == 0 - 9999

ACCOUNT_CASH == "cash"
ACCOUNT_RECEIVABLE == "receivable"
ACCOUNT_SALES == "sales"
ACCOUNT_PENDING == "pending"

(***************************************************************************)
(* Float comparisons as pandas evaluates them: false when either side is   *)
(* NaN.                                                                    *)
(***************************************************************************)
IsNaN(x) == x = NaN
Ge(a, b) == ~IsNaN(a) /\ ~IsNaN(b) /\ a >= b
Lt(a, b) == ~IsNaN(a) /\ ~IsNaN(b) /\ a < b
Gt(a, b) == ~IsNaN(a) /\ ~IsNaN(b) /\ a > b
Between(x, lo, hi) == Ge(x, lo) /\ Ge(hi, x)

(***************************************************************************)
(* Sequence helpers.                                                       *)
(***************************************************************************)
RECURSIVE SumSeq(_)
SumSeq(s) == IF s = <<>> THEN 0 ELSE Head(s) + SumSeq(Tail(s))

\* a column of a table, as the sequence of its values
Column(df, name) == [i \in 1..Len(df) |-> df[i][name]]

SeqUpTo(S, n) == UNION {[1..k -> S] : k \in 0..n}

(***************************************************************************)
(* Inputs: the three files the Journal Generator reads, and the match      *)
(* suggestion tables a CSV file can hold.                                  *)
(***************************************************************************)
InputFiles == {"match_suggestion_file", "bank_data_file", "invoice_seed_file"}
FileStatus == {"ok", "missing", "unreadable"}

RequiredMatchColumns ==
    {"transaction_id", "project_id", "client_name", "amount",
     "matched_amount", "match_score"}

TransactionIds == {"TXN_1", "TXN_2"}
Amounts == {0, 100}
MatchedAmounts == {0, 100, 150}
Scores == {0 - 1, 6, 7, 11, NaN}
Thresholds == {0, 7, 10}
MissingColumnChoices == {"amount", "matched_amount", "match_score"}

ProjectOf(t) == IF t = "TXN_1" THEN "PRJ_0001" ELSE "PRJ_0002"
ClientOf(t) == IF t = "TXN_1" THEN "A" ELSE "B"

\* the rows of a table whose columns are cols: a missing column has no value
SuggestionRows(cols) ==
    {[transaction_id |-> t, project_id |-> ProjectOf(t),
      client_name |-> ClientOf(t), amount |-> a, matched_amount |-> m,
      match_score |-> s] :
        t \in TransactionIds,
        a \in (IF "amount" \in cols THEN Amounts ELSE {Absent}),
        m \in (IF "matched_amount" \in cols THEN MatchedAmounts ELSE {Absent}),
        s \in (IF "match_score" \in cols THEN Scores ELSE {Absent})}

ColumnSets ==
    {RequiredMatchColumns} \cup
    {RequiredMatchColumns \ {c} : c \in MissingColumnChoices}

VARIABLES
    entry,                \* the entry point that is running
    pc,                   \* position inside the running entry point
    file_status,          \* the input files on disk
    confidence_threshold, \* argument of process()
    match_df,             \* CashMatchingProcessor.match_df (None is <<>>)
    match_columns,        \* the columns of match_df
    high_confidence,      \* result of filter_high_confidence_matches
    low_confidence,       \* local of process()
    journal_df,           \* CashMatchingProcessor.journal_df
    processing_stats,     \* CashMatchingProcessor.processing_stats
    journal_stats,        \* result of calculate_journal_statistics
    artifacts,            \* output files written so far
    outcome               \* what the caller of the entry point observes

vars == <<entry, pc, file_status, confidence_threshold, match_df,
          match_columns, high_confidence, low_confidence, journal_df,
          processing_stats, journal_stats, artifacts, outcome>>

(***************************************************************************)
(* CashMatchingProcessor (src/src/data_processing/apply_cash_matching.py). *)
(***************************************************************************)
InitialProcessingStats ==
    [total_suggestions |-> 0, applied_matches |-> 0, rejected_matches |-> 0,
     total_amount |-> 0, matched_amount |-> 0]

\* load_data: False when a file is missing or read_csv raises
LoadSucceeds(fs) == \A f \in InputFiles : fs[f] = "ok"

\* validate_match_suggestions
MissingColumns(cols) == RequiredMatchColumns \ cols
ScoresInRange(df) ==
    \A i \in 1..Len(df) :
        Between(df[i].match_score, MATCH_SCORE_MIN, MATCH_SCORE_MAX)
AmountsPositive(df) == \A i \in 1..Len(df) : Gt(df[i].amount, 0)
\* mutant: the amounts are not checked
ValidateMatchSuggestions_NoAmount(df, cols) ==
    IF MissingColumns(cols) # {} THEN FALSE
    ELSE IF ~ScoresInRange(df) THEN FALSE
    ELSE TRUE

ValidateMatchSuggestions(df, cols) ==
    IF MissingColumns(cols) # {} THEN FALSE
    ELSE IF ~ScoresInRange(df) THEN FALSE
    ELSE IF ~AmountsPositive(df) THEN FALSE
    ELSE TRUE

\* mutant: the boundary score is not high confidence
IsHighConfidence_Strict(row, threshold) == Gt(row.match_score, threshold)

\* the two boolean masks of the partition
IsHighConfidence(row, threshold) == Ge(row.match_score, threshold)
IsLowConfidence(row, threshold) == Lt(row.match_score, threshold)

HighConfidenceOf(df, threshold) ==
    LET Keep(r) == IsHighConfidence(r, threshold) IN SelectSeq(df, Keep)
LowConfidenceOf(df, threshold) ==
    LET Keep(r) == IsLowConfidence(r, threshold) IN SelectSeq(df, Keep)

\* mutant: rejected_matches counts every suggestion
FilterStatistics_AllRejected(stats, df, high) ==
    [stats EXCEPT
        !.total_suggestions = Len(df),
        !.applied_matches = Len(high),
        !.rejected_matches = Len(df)]

\* the counters filter_high_confidence_matches stores in processing_stats
FilterStatistics(stats, df, high) ==
    [stats EXCEPT
        !.total_suggestions = Len(df),
        !.applied_matches = Len(high),
        !.rejected_matches = Len(df) - Len(high)]

\* mutant: the cash receipt takes the suggestion's amount
CashReceiptEntry_Amount(match) ==
    [transaction_id |-> match.transaction_id,
     project_id |-> match.project_id,
     client_name |-> match.client_name,
     debit_account |-> ACCOUNT_CASH,
     credit_account |-> ACCOUNT_RECEIVABLE,
     amount |-> match.amount,
     description |-> <<"cash_matching", match.client_name, match.project_id>>,
     match_score |-> match.match_score,
     entry_type |-> "cash_receipt"]

\* the two entries create_journal_entries appends for one match
CashReceiptEntry(match) ==
    [transaction_id |-> match.transaction_id,
     project_id |-> match.project_id,
     client_name |-> match.client_name,
     debit_account |-> ACCOUNT_CASH,
     credit_account |-> ACCOUNT_RECEIVABLE,
     amount |-> match.matched_amount,
     description |-> <<"cash_matching", match.client_name, match.project_id>>,
     match_score |-> match.match_score,
     entry_type |-> "cash_receipt"]

RevenueEntry(match) ==
    [transaction_id |-> match.transaction_id,
     project_id |-> match.project_id,
     client_name |-> match.client_name,
     debit_account |-> ACCOUNT_RECEIVABLE,
     credit_account |-> ACCOUNT_SALES,
     amount |-> match.matched_amount,
     description |-> <<"revenue", match.client_name, match.project_id>>,
     match_score |-> match.match_score,
     entry_type |-> "revenue_recognition"]

\* mutant: the manual review entry takes the suggestion's matched_amount
ManualReviewEntry_Matched(match) ==
    [transaction_id |-> match.transaction_id,
     project_id |-> match.project_id,
     client_name |-> match.client_name,
     debit_account |-> ACCOUNT_PENDING,
     credit_account |-> ACCOUNT_PENDING,
     amount |-> match.matched_amount,
     description |-> <<"manual_review", match.client_name, match.project_id,
                       match.match_score>>,
     match_score |-> match.match_score,
     entry_type |-> "manual_review"]

\* the entry add_manual_review_entries appends for one match
ManualReviewEntry(match) ==
    [transaction_id |-> match.transaction_id,
     project_id |-> match.project_id,
     client_name |-> match.client_name,
     debit_account |-> ACCOUNT_PENDING,
     credit_account |-> ACCOUNT_PENDING,
     amount |-> match.amount,
     description |-> <<"manual_review", match.client_name, match.project_id,
                       match.match_score>>,
     match_score |-> match.match_score,
     entry_type |-> "manual_review"]

RECURSIVE JournalEntriesOf(_)
JournalEntriesOf(matches) ==
    IF matches = <<>> THEN <<>>
    ELSE <<CashReceiptEntry(Head(matches)), RevenueEntry(Head(matches))>>
         \o JournalEntriesOf(Tail(matches))

RECURSIVE ManualEntriesOf(_)
ManualEntriesOf(matches) ==
    IF matches = <<>> THEN <<>>
    ELSE <<ManualReviewEntry(Head(matches))>> \o ManualEntriesOf(Tail(matches))

CountType(journal, t) ==
    LET Keep(e) == e.entry_type = t IN Len(SelectSeq(journal, Keep))

\* calculate_journal_statistics: {} (here <<>>) for an empty journal
JournalStatisticsOf(journal) ==
    IF journal = <<>> THEN <<>>
    ELSE LET Debited(e) == e.debit_account = ACCOUNT_CASH
             Credited(e) == e.credit_account = ACCOUNT_SALES
         IN <<[total_entries |-> Len(journal),
               cash_receipt_entries |-> CountType(journal, "cash_receipt"),
               revenue_entries |-> CountType(journal, "revenue_recognition"),
               manual_review_entries |-> CountType(journal, "manual_review"),
               total_debit_amount |->
                   SumSeq(Column(SelectSeq(journal, Debited), "amount")),
               total_credit_amount |->
                   SumSeq(Column(SelectSeq(journal, Credited), "amount")),
               average_match_score |->
                   <<SumSeq(Column(journal, "match_score")), Len(journal)>>]>>

(***************************************************************************)
(* BankTransactionProcessor (src/src/data_processing/prep_bank_txn.py).    *)
(* A raw bank row is one line of the CSV file; idx is its position in the  *)
(* file, which pandas keeps as the row's index (row.name) through the      *)
(* filters.  NoText is an empty text cell (NaN), AmountText a cell of the  *)
(* Amount column that is no number ("abc").                                *)
(***************************************************************************)
NoText == "<NaN>"
BadDate == "not-a-date"
AmountText == 0 - 7777
TYPE_DEPOSIT == "deposit"
TYPE_DEPOSIT_PADDED == " deposit "
TYPE_WITHDRAWAL == "withdrawal"

RequiredBankColumns_WithoutType ==
    {"Transaction_Date", "Client_Name", "Amount"}
RequiredBankColumns ==
    {"Transaction_Date", "Client_Name", "Amount", "Transaction_Type"}
BankColumnSets ==
    {RequiredBankColumns}
    \cup {RequiredBankColumns \ {c} : c \in RequiredBankColumns}

BankDate == "2024-06-01"
EarlierDate == "2024-05-01"
ProcessedDate == "2024-06-02"
FutureDate == "2999-01-01"
BankOrdinaryRows ==
    {[Transaction_Date |-> BankDate, Client_Name |-> c, Amount |-> a,
      Transaction_Type |-> t] :
        c \in {"A", "X"}, a \in {109000, 115000, 0},
        t \in {TYPE_DEPOSIT, TYPE_WITHDRAWAL}}
BankSpecialRows ==
    {[Transaction_Date |-> NoText, Client_Name |-> "A", Amount |-> 109000,
      Transaction_Type |-> TYPE_DEPOSIT],
     [Transaction_Date |-> BadDate, Client_Name |-> "A", Amount |-> 109000,
      Transaction_Type |-> TYPE_DEPOSIT],
     [Transaction_Date |-> BankDate, Client_Name |-> NoText, Amount |-> 109000,
      Transaction_Type |-> TYPE_DEPOSIT],
     [Transaction_Date |-> BankDate, Client_Name |-> "A", Amount |-> AmountText,
      Transaction_Type |-> TYPE_DEPOSIT],
     [Transaction_Date |-> BankDate, Client_Name |-> "A", Amount |-> 109000,
      Transaction_Type |-> TYPE_DEPOSIT_PADDED],
     [Transaction_Date |-> BankDate, Client_Name |-> "A", Amount |-> 110000,
      Transaction_Type |-> TYPE_DEPOSIT]}
BankRawRows == BankOrdinaryRows \cup BankSpecialRows

\* the receivables ledger data/Updated_Accounts_Receivable.csv
ArLedgers ==
    {[status |-> "missing", rows |-> <<>>],
     [status |-> "unreadable", rows |-> <<>>],
     [status |-> "ok",
      rows |-> <<[Project_ID |-> "PRJ_0001", Client |-> "A",
                  AR_Amount |-> 100000]>>],
     [status |-> "ok",
      rows |-> <<[Project_ID |-> "PRJ_0001", Client |-> "A",
                  AR_Amount |-> 100000],
                 [Project_ID |-> "PRJ_0002", Client |-> "A",
                  AR_Amount |-> 0]>>]}

InitialBankStats ==
    [total_transactions |-> 0, valid_transactions |-> 0,
     invalid_transactions |-> 0, total_amount |-> 0, processed_amount |-> 0]

\* rows of the file, each with its index
Indexed(rows) ==
    [i \in 1..Len(rows) |->
        [idx |-> i - 1,
         Transaction_Date |-> rows[i].Transaction_Date,
         Client_Name |-> rows[i].Client_Name,
         Amount |-> rows[i].Amount,
         Transaction_Type |-> rows[i].Transaction_Type]]

\* pd.to_numeric(errors='coerce') and Series.str.strip
ToNumeric(a) == IF a = AmountText THEN NaN ELSE a
Strip(t) == IF t = TYPE_DEPOSIT_PADDED THEN TYPE_DEPOSIT ELSE t

\* pd.to_datetime raises on a text that is no date
DateParseFails(df) == \E i \in 1..Len(df) : df[i].Transaction_Date = BadDate
\* the .str accessor raises on a column that holds no text at all
StrAccessorFails(df) ==
    Len(df) > 0 /\ \A i \in 1..Len(df) : df[i].Client_Name = NoText
CleanRaises(df) == DateParseFails(df) \/ StrAccessorFails(df)

\* clean_transaction_data: the rows that stay
IsValidTransaction_AnyType(r) ==
    /\ r.Transaction_Date # NoText
    /\ r.Client_Name # NoText
    /\ ~IsNaN(ToNumeric(r.Amount))
    /\ Gt(ToNumeric(r.Amount), 0)
IsValidTransaction(r) ==
    /\ r.Transaction_Date # NoText
    /\ r.Client_Name # NoText
    /\ ~IsNaN(ToNumeric(r.Amount))
    /\ Strip(r.Transaction_Type) = TYPE_DEPOSIT
    /\ Gt(ToNumeric(r.Amount), 0)

Normalized(r) ==
    [r EXCEPT !.Amount = ToNumeric(r.Amount),
              !.Transaction_Type = Strip(r.Transaction_Type)]

CleanTransactionData(df) ==
    LET kept == SelectSeq(df, IsValidTransaction)
    IN [i \in 1..Len(kept) |-> Normalized(kept[i])]

\* add_processing_metadata
AMOUNT_SMALL_MAX == 100000
AMOUNT_MEDIUM_MAX == 500000
CategorizeAmount(amount) ==
    IF amount < AMOUNT_SMALL_MAX THEN "small"
    ELSE IF amount < AMOUNT_MEDIUM_MAX THEN "medium"
    ELSE "large"

\* .dt.year and .dt.month of the dates of the model
YearOf(d) ==
    CASE d \in {BankDate, EarlierDate, ProcessedDate} -> 2024
      [] d = FutureDate -> 2999
      [] OTHER -> 0
MonthOf(d) ==
    CASE d \in {BankDate, ProcessedDate} -> 6
      [] d = EarlierDate -> 5
      [] d = FutureDate -> 1
      [] OTHER -> 0

VARIABLES
    run,                  \* 1 in the first run of process() on the input, 2
                          \* in a second run on the same input
    first_output          \* the table the first run has saved

\* datetime.now() at add_processing_metadata: the runs differ in it
Now == <<ProcessedDate, run>>

\* make_txn_id: the file has neither a transaction_id nor a project_id column
MakeTxnId_PerRun(r) == <<"TXN", <<r.idx, run>>, r.Client_Name>>
MakeTxnId(r) == <<"TXN", r.idx, r.Client_Name>>

WithMetadata(r) ==
    [idx |-> r.idx,
     Transaction_Date |-> r.Transaction_Date,
     Client_Name |-> r.Client_Name,
     Amount |-> r.Amount,
     Transaction_Type |-> r.Transaction_Type,
     processed_at |-> Now,
     transaction_id |-> MakeTxnId(r),
     year |-> YearOf(r.Transaction_Date),
     month |-> MonthOf(r.Transaction_Date),
     amount_category |-> CategorizeAmount(r.Amount),
     Project_ID |-> NoText,
     AR_Amount |-> NaN,
     matching_status |-> NoText,
     matching_confidence |-> NaN]

AddProcessingMetadata(df) == [i \in 1..Len(df) |-> WithMetadata(df[i])]

\* match_with_accounts_receivable.  The left merge pairs a bank row with
\* every ledger row of its client, or with no ledger row (AR_Amount NaN).
\* amount_diff_pct <= 0.1 is |Amount - AR| * 10 <= |AR|; a division by an
\* AR_Amount of 0 gives inf, which is > 0.1; NaN is in neither mask.
CONFIDENCE_SCALE == 1000
Abs(x) == IF x < 0 THEN 0 - x ELSE x

RECURSIVE FlattenSeq(_)
FlattenSeq(ss) == IF ss = <<>> THEN <<>> ELSE Head(ss) \o FlattenSeq(Tail(ss))

MergeRow(r, ledger) ==
    LET SameClient(a) == a.Client = r.Client_Name
        found == SelectSeq(ledger, SameClient)
    IN IF found = <<>> THEN <<r>>
       ELSE [k \in 1..Len(found) |->
                [r EXCEPT !.Project_ID = found[k].Project_ID,
                          !.AR_Amount = found[k].AR_Amount]]

MergeWithLedger(df, ledger) ==
    FlattenSeq([i \in 1..Len(df) |-> MergeRow(df[i], ledger)])

WithinTolerance_Strict(r) ==
    /\ ~IsNaN(r.AR_Amount)
    /\ r.AR_Amount # 0
    /\ Abs(r.Amount - r.AR_Amount) * 10 < Abs(r.AR_Amount)
WithinTolerance(r) ==
    /\ ~IsNaN(r.AR_Amount)
    /\ r.AR_Amount # 0
    /\ Abs(r.Amount - r.AR_Amount) * 10 <= Abs(r.AR_Amount)
OutsideTolerance(r) ==
    /\ ~IsNaN(r.AR_Amount)
    /\ (r.AR_Amount = 0 \/ Abs(r.Amount - r.AR_Amount) * 10 > Abs(r.AR_Amount))

ConfidenceOf(r) ==
    CONFIDENCE_SCALE
        - ((Abs(r.Amount - r.AR_Amount) * CONFIDENCE_SCALE) \div Abs(r.AR_Amount))

Marked(df, status) ==
    [i \in 1..Len(df) |->
        [df[i] EXCEPT !.matching_status = status,
                      !.matching_confidence =
                          IF status = "matched" THEN ConfidenceOf(df[i]) ELSE 0]]

MatchWithAccountsReceivable(df, ar) ==
    IF ar.status = "missing" THEN Marked(df, "no_ar_data")
    ELSE IF ar.status = "unreadable" THEN Marked(df, "matching_error")
    ELSE LET merged == MergeWithLedger(df, ar.rows)
         IN Marked(SelectSeq(merged, WithinTolerance), "matched")
            \o Marked(SelectSeq(merged, OutsideTolerance), "unmatched")

BankStatisticsOf(stats, df) ==
    LET IsMatched(r) == r.matching_status = "matched"
    IN [stats EXCEPT
           !.total_amount = SumSeq(Column(df, "Amount")),
           !.processed_amount =
               SumSeq(Column(SelectSeq(df, IsMatched), "Amount"))]

VARIABLES
    bank_input_status,    \* the bank input file on disk
    ar_ledger,            \* the receivables ledger on disk
    invoice_draft_exists, \* output/ai_output/draft_invoice_202401.json exists
    bank_columns,         \* the columns of BankTransactionProcessor.df
    bank_df,              \* BankTransactionProcessor.df
    processed_df,         \* the table process() builds and saves
    bank_stats,           \* BankTransactionProcessor.processing_stats
    failed_stages         \* the stages of the run that failed

journalVars == <<file_status, confidence_threshold, match_df, match_columns,
                 high_confidence, low_confidence, journal_df,
                 processing_stats, journal_stats>>
bankEnv == <<bank_input_status, ar_ledger, invoice_draft_exists, run,
             first_output>>
bankVars == <<bank_columns, bank_df, processed_df, bank_stats>>

VARIABLES
    input_file,           \* the file a validator is constructed with
    other_file,           \* the second file a validator reads
    validated_df,         \* the validator's table (self.df, self.journal_df)
    validated_columns,    \* its columns
    other_df,             \* MatchingValidator.match_df
    other_columns,        \* its columns
    validation_results,   \* the validator's validation_results
    stages_run,           \* the validate_* methods called so far, in order
    verdict               \* is_valid of run_all_validations, once computed

validatorEnv == <<input_file, other_file>>
validatorVars == <<validated_df, validated_columns, other_df, other_columns,
                   validation_results, stages_run, verdict>>
validatorState == <<validatorEnv, validatorVars>>

VARIABLES
    invoice_file,         \* the invoice JSON the converter is constructed with
    proposal_file,        \* the match proposal JSON (the AI's output)
    client_mapping,       \* MatchSuggestionConverter.client_mapping
    client_name_to_projects, \* MatchSuggestionConverter.client_name_to_projects
    matches,              \* local of convert(): the loaded proposals
    csv_data,             \* the row list convert_to_csv_format returns
    corrected_data,       \* the row list handle_data_inconsistency returns
    csv_file,             \* the CSV file of the converter (<<>>: not written)
    convert_returned      \* the value convert() returned, "none" before

converterEnv == <<invoice_file, proposal_file>>
converterVars == <<converterEnv, client_mapping, client_name_to_projects,
                   matches, csv_data, corrected_data, csv_file,
                   convert_returned>>

VARIABLES
    clock,                \* the wall clock, in ticks of half a second
    run_pc,               \* position of each of two runs of one stage
    output_files,         \* the output directories: file name and writer
    written               \* every file a run has written so far

twoRunsVars == <<clock, run_pc, output_files, written>>

allVars == <<vars, bankEnv, bankVars, failed_stages, validatorEnv,
             validatorVars, converterVars, twoRunsVars>>

(***************************************************************************)
(* MatchSuggestionConverter                                                *)
(* (src/src/data_processing/convert_match_suggestion.py): its inputs.      *)
(* A transaction_id is the sequence of the parts that the f-string joins   *)
(* with "_"; a comment is the record of the parts the f-string formats.    *)
(* An empty text is "", which Python treats as false.                      *)
(***************************************************************************)
MaxProposals == 2
MaxCsvRows == 2

SeedInvoices ==
    <<[project_id |-> "PRJ_0001", client_name |-> "A"],
      [project_id |-> "PRJ_0002", client_name |-> "B"],
      [project_id |-> "PRJ_0003", client_name |-> "B"],
      [project_id |-> "", client_name |-> "B"]>>
NoInvoiceFile == [status |-> "missing", invoices |-> <<>>]
InvoiceFiles ==
    {NoInvoiceFile,
     [status |-> "unreadable", invoices |-> <<>>],
     [status |-> "ok", invoices |-> SeedInvoices]}

\* the proposals of the AI: a known invoice_id, or an unknown one with no
\* client name, the name of one seed project or the name of two
Proposals ==
    {p \in [invoice_id : {"PRJ_0001", "PRJ_9999"}, payment_id : {"P1"},
            match_amount : {100, 0}, confidence_score : {9, 12},
            match_type : {"exact"}, status : {"matched", "unmatched"},
            client_name : {"", "A", "B"}] :
        p.invoice_id = "PRJ_0001" => p.client_name = ""}
NoProposalFile == [status |-> "missing", matches |-> <<>>]
ProposalFiles ==
    {NoProposalFile}
    \cup {[status |-> "ok", matches |-> m] :
            m \in SeqUpTo(Proposals, MaxProposals)}

\* the row lists handle_data_inconsistency is called with
TxnId(payment_id, project_id) == <<"TXN", payment_id, project_id>>
CsvRows ==
    [transaction_id : {TxnId("P1", "PRJ_0001"), <<"P1", "PRJ_0001">>},
     project_id : {"PRJ_0001"},
     client_name : {"A", "Unknown"},
     amount : {100, 0},
     matched_amount : {150, 0 - 100},
     match_score : {10, 15, 0 - 1},
     comment : {[type |-> "exact", score |-> 10, status |-> "",
                 reasons |-> <<>>]}]

(***************************************************************************)
(* Two runs of one stage (the Journal Generator or the Bank Transaction    *)
(* Preprocessor) that share the output directories.                        *)
(***************************************************************************)
MaxClock == 3
Runs == {1, 2}

(***************************************************************************)
(* validation_results as the three validators construct it: the check      *)
(* flags, the summary aggregates, the errors and the warnings.             *)
(***************************************************************************)
ValidatorEntryPoints ==
    {"matching_validator", "bank_validator", "seed_validator"}

BasicFlags == {"file_exists", "file_readable", "required_columns"}

FlagsOf(e) ==
    CASE e = "matching_validator" ->
            BasicFlags \cup {"data_types", "accounting_balance",
                             "matching_consistency", "amount_consistency",
                             "duplicate_entries"}
      [] e = "bank_validator" ->
            BasicFlags \cup {"data_types", "data_ranges", "duplicates",
                             "matching_consistency", "amount_consistency",
                             "date_consistency"}
      [] e = "seed_validator" ->
            BasicFlags \cup {"data_types", "data_ranges", "duplicates",
                             "project_master_consistency"}
      [] OTHER -> {}

AggregatesOf(e) ==
    CASE e = "matching_validator" ->
            {"total_entries", "total_debit", "total_credit"}
      [] e = "bank_validator" ->
            {"total_transactions", "total_amount", "matched_amount"}
      [] e = "seed_validator" -> {"total_amount", "total_projects"}
      [] OTHER -> {}

InitialValidationResults(e) ==
    [flags |-> [f \in FlagsOf(e) |-> FALSE],
     aggregates |-> [a \in AggregatesOf(e) |-> 0],
     errors |-> <<>>,
     warnings |-> <<>>]

\* an error or warning message: its fixed text, the names (columns,
\* transaction ids, values) and the count it is formatted with
Message(text, names, count) == [msg |-> text, about |-> names, n |-> count]

(***************************************************************************)
(* The state after construction (the __init__ methods), for an entry point *)
(* out of E and each state of the input files.                             *)
(***************************************************************************)
JournalEntryPoints == {"process", "cash_main"}
BankEntryPoints == {"bank_process", "bank_main", "run_payment_matching"}

StartOf(e) ==
    CASE e = "process" -> "start"
      [] e = "cash_main" -> "main"
      [] e = "bank_process" -> "b_start"
      [] e = "bank_main" -> "b_main"
      [] e = "run_payment_matching" -> "b_main"
      [] e \in ValidatorEntryPoints -> "v_start"
      [] e = "convert" -> "c_start"
      [] e = "handle_data_inconsistency" -> "h_start"
      [] e \in {"journal_runs", "bank_runs"} -> "runs"

InitFor(E) ==
    /\ entry \in E
    /\ pc = StartOf(entry)
    /\ file_status \in
           (IF entry \in JournalEntryPoints THEN [InputFiles -> FileStatus]
            ELSE {[f \in InputFiles |-> "ok"]})
    /\ confidence_threshold \in
           (IF entry = "process" THEN Thresholds ELSE {DEFAULT_THRESHOLD})
    /\ match_df = <<>>
    /\ match_columns = {}
    /\ high_confidence = <<>>
    /\ low_confidence = <<>>
    /\ journal_df = <<>>
    /\ processing_stats = InitialProcessingStats
    /\ journal_stats = <<>>
    /\ artifacts = {}
    /\ outcome = "running"
    /\ bank_input_status \in
           (IF entry \in BankEntryPoints THEN FileStatus ELSE {"ok"})
    /\ ar_ledger \in
           (IF entry \in BankEntryPoints THEN ArLedgers
            ELSE {[status |-> "missing", rows |-> <<>>]})
    /\ invoice_draft_exists \in
           (IF entry = "run_payment_matching" THEN BOOLEAN ELSE {TRUE})
    /\ run = 1
    /\ first_output = <<>>
    /\ bank_columns = {}
    /\ bank_df = <<>>
    /\ processed_df = <<>>
    /\ bank_stats = InitialBankStats
    /\ failed_stages = {}
    /\ input_file \in
           (IF entry \in ValidatorEntryPoints THEN FileStatus ELSE {"ok"})
    /\ other_file \in
           (IF entry \in {"matching_validator", "seed_validator"}
            THEN FileStatus ELSE {"ok"})
    /\ validated_df = <<>>
    /\ validated_columns = {}
    /\ other_df = <<>>
    /\ other_columns = {}
    /\ validation_results = InitialValidationResults(entry)
    /\ stages_run = <<>>
    /\ verdict = "none"
    /\ invoice_file \in
           (IF entry = "convert" THEN InvoiceFiles ELSE {NoInvoiceFile})
    /\ proposal_file \in
           (IF entry = "convert" THEN ProposalFiles ELSE {NoProposalFile})
    /\ client_mapping = <<>>
    /\ client_name_to_projects = <<>>
    /\ matches = <<>>
    /\ csv_data \in
           (IF entry = "handle_data_inconsistency"
            THEN SeqUpTo(CsvRows, MaxCsvRows) ELSE {<<>>})
    /\ corrected_data = <<>>
    /\ csv_file = <<>>
    /\ convert_returned = "none"
    /\ clock = 0
    /\ run_pc = [r \in Runs |->
                    IF entry \in {"journal_runs", "bank_runs"}
                    THEN "counted" ELSE "none"]
    /\ output_files = {}
    /\ written = {}

\* an exception leaves process(); main() catches it and calls sys.exit(1)
FailureOutcome(e) == IF e = "cash_main" THEN "exit_1" ELSE "raised"

\* main(): the three glob searches; an empty one prints an error and returns
MainFindInputs ==
    /\ entry = "cash_main" /\ pc = "main"
    /\ IF \E f \in InputFiles : file_status[f] = "missing"
       THEN /\ pc' = "no_input_files"
            /\ outcome' = "normal"
            /\ failed_stages' = failed_stages \cup {"journal_generation"}
       ELSE /\ pc' = "start"
            /\ UNCHANGED <<outcome, failed_stages>>
    /\ UNCHANGED <<entry, converterVars, twoRunsVars, journalVars, artifacts,
                   bankEnv, validatorState, bankVars>>

\* process(): load_data, which reads the three files
LoadData ==
    /\ pc = "start"
    /\ IF LoadSucceeds(file_status)
       THEN /\ \E cols \in ColumnSets :
                 \E df \in SeqUpTo(SuggestionRows(cols), MaxSuggestions) :
                     match_df' = df /\ match_columns' = cols
            /\ pc' = "loaded"
            /\ UNCHANGED <<outcome, failed_stages>>
       ELSE /\ pc' = "failed"
            /\ outcome' = FailureOutcome(entry)
            /\ failed_stages' = failed_stages \cup {"journal_generation"}
            /\ UNCHANGED <<match_df, match_columns>>
    /\ UNCHANGED <<entry, converterVars, twoRunsVars, file_status,
                   confidence_threshold, high_confidence, low_confidence,
                   journal_df, processing_stats, journal_stats, artifacts,
                   bankEnv, validatorState, bankVars>>

\* process(): validate_match_suggestions
ValidateStep ==
    /\ pc = "loaded"
    /\ IF ValidateMatchSuggestions(match_df, match_columns)
       THEN /\ pc' = "validated"
            /\ UNCHANGED <<outcome, failed_stages>>
       ELSE /\ pc' = "failed"
            /\ outcome' = FailureOutcome(entry)
            /\ failed_stages' = failed_stages \cup {"journal_generation"}
    /\ UNCHANGED <<entry, converterVars, twoRunsVars, journalVars, artifacts,
                   bankEnv, validatorState, bankVars>>

\* filter_high_confidence_matches
FilterHighConfidenceMatches ==
    /\ pc = "validated"
    /\ high_confidence' = HighConfidenceOf(match_df, confidence_threshold)
    /\ processing_stats' =
           FilterStatistics(processing_stats, match_df, high_confidence')
    /\ pc' = "filtered"
    /\ UNCHANGED <<entry, converterVars, twoRunsVars, file_status,
                   confidence_threshold, match_df, match_columns,
                   low_confidence, journal_df, journal_stats, artifacts,
                   outcome, bankEnv, validatorState, bankVars, failed_stages>>

\* process(): the low-confidence rows
ExtractLowConfidence ==
    /\ pc = "filtered"
    /\ low_confidence' = LowConfidenceOf(match_df, confidence_threshold)
    /\ pc' = "partitioned"
    /\ UNCHANGED <<entry, converterVars, twoRunsVars, file_status,
                   confidence_threshold, match_df, match_columns,
                   high_confidence, journal_df, processing_stats,
                   journal_stats, artifacts, outcome, bankEnv, validatorState,
                   bankVars, failed_stages>>

\* create_journal_entries
CreateJournalEntries ==
    /\ pc = "partitioned"
    /\ journal_df' = JournalEntriesOf(high_confidence)
    /\ processing_stats' =
           [processing_stats EXCEPT
               !.total_amount = SumSeq(Column(high_confidence, "amount")),
               !.matched_amount =
                   SumSeq(Column(high_confidence, "matched_amount"))]
    /\ pc' = "created"
    /\ UNCHANGED <<entry, converterVars, twoRunsVars, file_status,
                   confidence_threshold, match_df, match_columns,
                   high_confidence, low_confidence, journal_stats, artifacts,
                   outcome, bankEnv, validatorState, bankVars, failed_stages>>

\* add_manual_review_entries, which process() calls when there are
\* low-confidence rows
AddManualReviewEntries ==
    /\ pc = "created"
    /\ journal_df' =
           IF low_confidence # <<>>
           THEN journal_df \o ManualEntriesOf(low_confidence)
           ELSE journal_df
    /\ pc' = "reviewed"
    /\ UNCHANGED <<entry, converterVars, twoRunsVars, file_status,
                   confidence_threshold, match_df, match_columns,
                   high_confidence, low_confidence, processing_stats,
                   journal_stats, artifacts, outcome, bankEnv, validatorState,
                   bankVars, failed_stages>>

\* calculate_journal_statistics
CalculateJournalStatistics ==
    /\ pc = "reviewed"
    /\ journal_stats' = JournalStatisticsOf(journal_df)
    /\ pc' = "counted"
    /\ UNCHANGED <<entry, converterVars, twoRunsVars, file_status,
                   confidence_threshold, match_df, match_columns,
                   high_confidence, low_confidence, journal_df,
                   processing_stats, artifacts, outcome, bankEnv,
                   validatorState, bankVars, failed_stages>>

\* save_journal_data
SaveJournalData ==
    /\ pc = "counted"
    /\ artifacts' = artifacts \cup {"journal_csv"}
    /\ pc' = "saved"
    /\ UNCHANGED <<entry, converterVars, twoRunsVars, journalVars, outcome,
                   bankEnv, validatorState, bankVars, failed_stages>>

\* process(): generate_matching_report and the write of the report file
SaveMatchingReport ==
    /\ pc = "saved"
    /\ artifacts' = artifacts \cup {"cash_matching_report"}
    /\ pc' = "done"
    /\ outcome' = "normal"
    /\ UNCHANGED <<entry, converterVars, twoRunsVars, journalVars, bankEnv,
                   validatorState, bankVars, failed_stages>>

NextJournal ==
    \/ LoadData
    \/ ValidateStep
    \/ FilterHighConfidenceMatches
    \/ ExtractLowConfidence
    \/ CreateJournalEntries
    \/ AddManualReviewEntries
    \/ CalculateJournalStatistics
    \/ SaveJournalData
    \/ SaveMatchingReport

\* the Journal Generator, process() called with each threshold
Spec == InitFor({"process"}) /\ [][NextJournal]_allVars

(***************************************************************************)
(* BankTransactionProcessor.process(), prep_bank_txn.main() and            *)
(* main_execution.run_payment_matching().                                  *)
(***************************************************************************)
MaxBankRows == 2

\* an exception leaves BankTransactionProcessor.process()
BankFailureOutcome(e) == IF e = "bank_process" THEN "raised" ELSE "running"

\* prep_bank_txn.main(): os.path.exists(input_file); a missing file is
\* logged and main() returns
BankMainFindInput ==
    /\ entry \in {"bank_main", "run_payment_matching"} /\ pc = "b_main"
    /\ IF bank_input_status = "missing"
       THEN /\ pc' = "b_returned"
            /\ outcome' = IF entry = "bank_main" THEN "normal" ELSE outcome
            /\ failed_stages' = failed_stages \cup {"bank_preprocessing"}
       ELSE /\ pc' = "b_start"
            /\ UNCHANGED <<outcome, failed_stages>>
    /\ UNCHANGED <<entry, converterVars, twoRunsVars, journalVars, artifacts,
                   bankEnv, validatorState, bankVars>>

\* process(): load_bank_data.  A second run reads the file the first run
\* has read: the same columns and rows.
LoadBankData ==
    /\ pc = "b_start"
    /\ IF bank_input_status = "ok"
       THEN /\ \E cols \in BankColumnSets :
                 \E rows \in SeqUpTo(BankRawRows, MaxBankRows) :
                     /\ run = 2 => /\ cols = bank_columns
                                   /\ Indexed(rows) = bank_df
                     /\ bank_columns' = cols
                     /\ bank_df' = Indexed(rows)
                     /\ bank_stats' =
                            [bank_stats EXCEPT
                                !.total_transactions = Len(rows)]
            /\ pc' = "b_loaded"
            /\ UNCHANGED <<outcome, failed_stages>>
       ELSE /\ pc' = "b_failed"
            /\ outcome' = BankFailureOutcome(entry)
            /\ failed_stages' = failed_stages \cup {"bank_preprocessing"}
            /\ UNCHANGED <<bank_columns, bank_df, bank_stats>>
    /\ UNCHANGED <<entry, converterVars, twoRunsVars, journalVars, artifacts,
                   bankEnv, validatorState, processed_df>>

\* process(): validate_data_structure
ValidateDataStructure ==
    /\ pc = "b_loaded"
    /\ IF RequiredBankColumns \subseteq bank_columns
       THEN /\ pc' = "b_validated"
            /\ UNCHANGED <<outcome, failed_stages>>
       ELSE /\ pc' = "b_failed"
            /\ outcome' = BankFailureOutcome(entry)
            /\ failed_stages' = failed_stages \cup {"bank_preprocessing"}
    /\ UNCHANGED <<entry, converterVars, twoRunsVars, journalVars, artifacts,
                   bankEnv, validatorState, bankVars>>

\* process(): clean_transaction_data
CleanStep ==
    /\ pc = "b_validated"
    /\ IF CleanRaises(bank_df)
       THEN /\ pc' = "b_failed"
            /\ outcome' = BankFailureOutcome(entry)
            /\ failed_stages' = failed_stages \cup {"bank_preprocessing"}
            /\ UNCHANGED <<processed_df, bank_stats>>
       ELSE /\ processed_df' = CleanTransactionData(bank_df)
            /\ bank_stats' =
                   [bank_stats EXCEPT
                       !.valid_transactions = Len(processed_df'),
                       !.invalid_transactions =
                           Len(bank_df) - Len(processed_df')]
            /\ pc' = "b_cleaned"
            /\ UNCHANGED <<outcome, failed_stages>>
    /\ UNCHANGED <<entry, converterVars, twoRunsVars, journalVars, artifacts,
                   bankEnv, validatorState, bank_columns, bank_df>>

\* process(): add_processing_metadata.  On a table without rows
\* df.apply(make_txn_id, axis=1) gives a table, not a column; whether the
\* assignment of it to df['transaction_id'] raises depends on the pandas
\* release; a second run is made with the release of the first.
MetadataStep ==
    /\ pc = "b_cleaned"
    /\ \E raises \in (IF processed_df = <<>> /\ run = 1 THEN BOOLEAN
                      ELSE {FALSE}) :
           IF raises
           THEN /\ pc' = "b_failed"
                /\ outcome' = BankFailureOutcome(entry)
                /\ failed_stages' = failed_stages \cup {"bank_preprocessing"}
                /\ UNCHANGED processed_df
           ELSE /\ processed_df' = AddProcessingMetadata(processed_df)
                /\ pc' = "b_metadata"
                /\ UNCHANGED <<outcome, failed_stages>>
    /\ UNCHANGED <<entry, converterVars, twoRunsVars, journalVars, artifacts,
                   bankEnv, validatorState, bank_columns, bank_df,
                   bank_stats>>

\* process(): match_with_accounts_receivable
MatchStep ==
    /\ pc = "b_metadata"
    /\ processed_df' = MatchWithAccountsReceivable(processed_df, ar_ledger)
    /\ pc' = "b_matched"
    /\ UNCHANGED <<entry, converterVars, twoRunsVars, journalVars, artifacts,
                   outcome, bankEnv, validatorState, bank_columns, bank_df,
                   bank_stats, failed_stages>>

\* process(): calculate_statistics
CalculateStatistics ==
    /\ pc = "b_matched"
    /\ bank_stats' = BankStatisticsOf(bank_stats, processed_df)
    /\ pc' = "b_counted"
    /\ UNCHANGED <<entry, converterVars, twoRunsVars, journalVars, artifacts,
                   outcome, bankEnv, validatorState, bank_columns, bank_df,
                   processed_df, failed_stages>>

\* process(): save_processed_data
SaveProcessedData ==
    /\ pc = "b_counted"
    /\ artifacts' = artifacts \cup {"processed_bank_csv"}
    /\ pc' = "b_saved"
    /\ UNCHANGED <<entry, converterVars, twoRunsVars, journalVars, outcome,
                   bankEnv, validatorState, bankVars, failed_stages>>

\* process(): generate_processing_report and the write of the report file
SaveProcessingReport ==
    /\ pc = "b_saved"
    /\ artifacts' = artifacts \cup {"bank_processing_report"}
    /\ pc' = "b_done"
    /\ outcome' = IF entry = "bank_process" THEN "normal" ELSE outcome
    /\ UNCHANGED <<entry, converterVars, twoRunsVars, journalVars, bankEnv,
                   validatorState, bankVars, failed_stages>>

\* prep_bank_txn.main(): the prints after process(), or the except branch
\* that logs and prints the error; either way main() returns
BankMainReturn ==
    /\ entry \in {"bank_main", "run_payment_matching"}
    /\ pc \in {"b_done", "b_failed"}
    /\ pc' = "b_returned"
    /\ outcome' = IF entry = "bank_main" THEN "normal" ELSE outcome
    /\ UNCHANGED <<entry, converterVars, twoRunsVars, journalVars, artifacts,
                   bankEnv, validatorState, bankVars, failed_stages>>

\* run_payment_matching(): the check of the invoice draft and of the
\* payment file, which is the bank input file
RpmCheckFiles ==
    /\ entry = "run_payment_matching" /\ pc = "b_returned"
    /\ IF ~invoice_draft_exists \/ bank_input_status = "missing"
       THEN /\ pc' = "rpm_failed"
            /\ outcome' = "raised"
            /\ failed_stages' = failed_stages \cup {"ai_matching"}
       ELSE /\ pc' = "rpm_files_found"
            /\ UNCHANGED <<outcome, failed_stages>>
    /\ UNCHANGED <<entry, converterVars, twoRunsVars, journalVars, artifacts,
                   bankEnv, validatorState, bankVars>>

\* run_payment_matching(): the files are read, PaymentMatcher().match() is
\* called and its result is written; an unreadable payment file raises, and
\* so may the reading of the draft or the matcher
RpmAiMatch ==
    /\ pc = "rpm_files_found"
    /\ \E raises \in (IF bank_input_status = "unreadable" THEN {TRUE}
                      ELSE BOOLEAN) :
           IF raises
           THEN /\ pc' = "rpm_failed"
                /\ outcome' = "raised"
                /\ failed_stages' = failed_stages \cup {"ai_matching"}
                /\ UNCHANGED artifacts
           ELSE /\ pc' = "rpm_matched"
                /\ artifacts' = artifacts \cup {"match_suggestion_json"}
                /\ UNCHANGED <<outcome, failed_stages>>
    /\ UNCHANGED <<entry, converterVars, twoRunsVars, journalVars, bankEnv,
                   validatorState, bankVars>>

\* run_payment_matching(): converter.convert() and what follows it; a
\* result of False is logged and printed, then the completion is announced
RpmConvert ==
    /\ pc = "rpm_matched"
    /\ \E converted \in BOOLEAN :
           IF converted
           THEN /\ artifacts' = artifacts \cup {"match_suggestion_csv"}
                /\ UNCHANGED failed_stages
           ELSE /\ failed_stages' = failed_stages \cup {"conversion"}
                /\ UNCHANGED artifacts
    /\ pc' = "rpm_done"
    /\ outcome' = "normal"
    /\ UNCHANGED <<entry, converterVars, twoRunsVars, journalVars, bankEnv,
                   validatorState, bankVars>>

NextBank ==
    \/ LoadBankData
    \/ ValidateDataStructure
    \/ CleanStep
    \/ MetadataStep
    \/ MatchStep
    \/ CalculateStatistics
    \/ SaveProcessedData
    \/ SaveProcessingReport

\* process() is run once more on the same input file and the same
\* receivables ledger, with a new BankTransactionProcessor
BankRerun ==
    /\ entry = "bank_process" /\ pc = "b_done" /\ run = 1
    /\ run' = 2
    /\ first_output' = processed_df
    /\ processed_df' = <<>>
    /\ bank_stats' = InitialBankStats
    /\ outcome' = "running"
    /\ pc' = "b_start"
    /\ UNCHANGED <<entry, converterVars, twoRunsVars, journalVars, artifacts,
                   bank_input_status, ar_ledger, invoice_draft_exists,
                   validatorState, bank_columns, bank_df, failed_stages>>

NextBankRuns ==
    \/ BankMainFindInput
    \/ NextBank
    \/ BankRerun
    \/ BankMainReturn
    \/ RpmCheckFiles
    \/ RpmAiMatch
    \/ RpmConvert

\* the Bank Transaction Preprocessor: process(), main() and its caller
\* run_payment_matching()
SpecBank == InitFor(BankEntryPoints) /\ [][NextBankRuns]_allVars

(***************************************************************************)
(* The validators.  What the three classes share: the updates of           *)
(* validation_results and the helpers of utils/data_utils.py.              *)
(***************************************************************************)
MaxValidatorRows == 2
MaxMatchRows == 1

pipelineVars == <<journalVars, artifacts, outcome, bankEnv, bankVars,
                  failed_stages>>

SetFlag(vr, f, value) == [vr EXCEPT !.flags[f] = value]
SetAggregate(vr, a, value) == [vr EXCEPT !.aggregates[a] = value]
AddErrors(vr, es) == [vr EXCEPT !.errors = @ \o es]
AddWarnings(vr, ws) == [vr EXCEPT !.warnings = @ \o ws]

\* a message that is appended when its condition holds
Opt(cond, m) == IF cond THEN <<m>> ELSE <<>>

\* [col for col in required if col not in df.columns]
MissingFrom(required, cols) == required \ cols

\* a column read from a CSV file holds numbers unless one of its cells is
\* no number or the file has no rows (dtype object)
NumericColumn(tbl, col) ==
    tbl # <<>> /\ \A i \in 1..Len(tbl) : tbl[i][col] # AmountText
TextColumn(tbl, col) == \E i \in 1..Len(tbl) : tbl[i][col] = AmountText
AllBetween_UpperOnly(tbl, col, lo, hi) ==
    \A i \in 1..Len(tbl) : Ge(hi, tbl[i][col])
AllBetween(tbl, col, lo, hi) ==
    \A i \in 1..Len(tbl) : Between(tbl[i][col], lo, hi)
AllPositive(tbl, col) == \A i \in 1..Len(tbl) : Gt(tbl[i][col], 0)

\* the values of a column in the order of their first appearance
\* (Series.unique)
RECURSIVE UniqueOf(_)
UniqueOf(s) ==
    IF s = <<>> THEN <<>>
    ELSE LET rest == UniqueOf(SubSeq(s, 1, Len(s) - 1))
             last == s[Len(s)]
         IN IF \E i \in 1..Len(rest) : rest[i] = last THEN rest
            ELSE Append(rest, last)

Range(s) == {s[i] : i \in 1..Len(s)}

\* the orders in which the elements of a set can be visited
OrdersOf(S) ==
    {o \in [1..Cardinality(S) -> S] : Range(o) = S}

RECURSIVE SumSquares(_)
SumSquares(s) ==
    IF s = <<>> THEN 0 ELSE Head(s) * Head(s) + SumSquares(Tail(s))

\* x lies outside mean +- OUTLIER_STDDEV * std of the values xs, std being
\* the sample standard deviation (NaN for a single value):
\* |x - S/n| > k * sqrt((n*Q - S^2) / (n*(n-1)))
OUTLIER_STDDEV == 3
IsOutlier(x, xs) ==
    LET n == Len(xs)
        S == SumSeq(xs)
        Q == SumSquares(xs)
    IN /\ n >= 2
       /\ (n * x - S) * (n * x - S) * (n - 1)
            > OUTLIER_STDDEV * OUTLIER_STDDEV * n * (n * Q - S * S)

(***************************************************************************)
(* MatchingValidator (src/src/data_processing/matching_validator.py).      *)
(***************************************************************************)
JournalRequiredColumns ==
    {"date", "transaction_id", "project_id", "client_name", "debit_account",
     "credit_account", "amount", "description", "match_score", "entry_type",
     "created_at"}
MatchRequiredColumns ==
    {"transaction_id", "project_id", "client_name", "amount",
     "matched_amount", "match_score"}
JournalColumnSets ==
    {JournalRequiredColumns, JournalRequiredColumns \ {"amount"},
     JournalRequiredColumns \ {"amount", "created_at"}}
MatchColumnSets ==
    {MatchRequiredColumns, MatchRequiredColumns \ {"matched_amount"}}

JournalDate == "2024-06-15"
ValidEntryTypes == {"cash_receipt", "revenue_recognition", "manual_review"}
AMOUNT_TOLERANCE == 1

JournalRow(t, type, debit, credit, a) ==
    [date |-> JournalDate, transaction_id |-> t, debit_account |-> debit,
     credit_account |-> credit, amount |-> a, match_score |-> 7,
     entry_type |-> type]
CashRow(t, a) ==
    JournalRow(t, "cash_receipt", ACCOUNT_CASH, ACCOUNT_RECEIVABLE, a)
RevenueRow(t, a) ==
    JournalRow(t, "revenue_recognition", ACCOUNT_RECEIVABLE, ACCOUNT_SALES, a)
ManualRow(t, a) ==
    JournalRow(t, "manual_review", ACCOUNT_PENDING, ACCOUNT_PENDING, a)

ValidatorJournalRows ==
    {CashRow(t, 100) : t \in {"TXN_1", "TXN_2"}}
    \cup {RevenueRow(t, 100) : t \in {"TXN_1", "TXN_2"}}
    \cup {ManualRow(t, 100) : t \in {"TXN_1", "TXN_2"}}
    \cup {RevenueRow("TXN_1", 102),
          RevenueRow("TXN_1", 101),
          CashRow("TXN_1", 0),
          [CashRow("TXN_1", 100) EXCEPT !.entry_type = "adjustment"],
          [CashRow("TXN_1", 100) EXCEPT !.match_score = 11],
          [CashRow("TXN_1", 100) EXCEPT !.date = BadDate],
          [ManualRow("TXN_1", 100) EXCEPT !.amount = AmountText]}

MatchRow(t, a, m, score) ==
    [transaction_id |-> t, amount |-> a, matched_amount |-> m,
     match_score |-> score]
ValidatorMatchRows ==
    {MatchRow("TXN_1", 100, 100, 7), MatchRow("TXN_1", 100, 150, 7),
     MatchRow("TXN_2", 100, 100, 6), MatchRow("TXN_3", 100, 100, 7),
     MatchRow("TXN_1", 0, 100, 7), MatchRow("TXN_1", 100, 100, NaN),
     MatchRow("TXN_1", 100, 100, 11), MatchRow("TXN_1", 100, 100, 0 - 1)}

\* the sum of the amounts of some rows of the journal; in a column of text
\* the sum of no rows is 0 and any other sum is a text
AmountSum(rows, text) ==
    IF rows = <<>> THEN 0
    ELSE IF text THEN AmountText
    ELSE SumSeq(Column(rows, "amount"))

EntriesOf(journal, t) ==
    LET Is(r) == r.transaction_id = t IN SelectSeq(journal, Is)
OfType(rows, type) ==
    LET Is(r) == r.entry_type = type IN SelectSeq(rows, Is)
CashAmount(journal, t) ==
    AmountSum(OfType(EntriesOf(journal, t), "cash_receipt"),
              TextColumn(journal, "amount"))
RevenueAmount(journal, t) ==
    AmountSum(OfType(EntriesOf(journal, t), "revenue_recognition"),
              TextColumn(journal, "amount"))

IsText(x) == x = AmountText

\* validate_data_types: the errors, in the order of the checks
MatchingDataTypeErrors(journal, match) ==
    Opt(\E i \in 1..Len(journal) : journal[i].date = BadDate,
        Message("Date format invalid", {}, 0))
    \o (IF ~NumericColumn(journal, "amount")
        THEN <<Message("Journal amount must be numeric", {}, 0)>>
        ELSE Opt(~AllPositive(journal, "amount"),
                 Message("Journal amount must be positive", {}, 0)))
    \o (IF ~NumericColumn(match, "amount")
        THEN <<Message("Match suggestion amount must be numeric", {}, 0)>>
        ELSE Opt(~AllPositive(match, "amount"),
                 Message("Match suggestion amount must be positive", {}, 0)))
    \o Opt(~AllBetween(journal, "match_score", MATCH_SCORE_MIN,
                       MATCH_SCORE_MAX),
           Message("Match score out of valid range", {}, 0))
    \o Opt(~AllBetween(match, "match_score", MATCH_SCORE_MIN,
                       MATCH_SCORE_MAX),
           Message("Match suggestion score out of valid range", {}, 0))
    \o Opt(Range(Column(journal, "entry_type")) \ ValidEntryTypes # {},
           Message("Invalid entry types",
                   Range(Column(journal, "entry_type")) \ ValidEntryTypes, 0))

\* validate_accounting_balance: the two totals
DebitTotal(journal) ==
    LET Is(r) == r.debit_account = ACCOUNT_CASH
    IN AmountSum(SelectSeq(journal, Is), TextColumn(journal, "amount"))
CreditTotal(journal) ==
    LET Is(r) == r.credit_account = ACCOUNT_SALES
    IN AmountSum(SelectSeq(journal, Is), TextColumn(journal, "amount"))

JournalIds(journal) == UniqueOf(Column(journal, "transaction_id"))

\* the amounts of a transaction cannot be subtracted: one of them is a text
AmountsRaise(journal, t) ==
    IsText(CashAmount(journal, t)) \/ IsText(RevenueAmount(journal, t))

InconsistentAmounts(journal, t) ==
    Opt(Abs(CashAmount(journal, t) - RevenueAmount(journal, t))
            > AMOUNT_TOLERANCE,
        Message("Inconsistent amounts", {t}, 0))

\* validate_accounting_balance: the warnings of one transaction id
BalanceWarningsFor(journal, t) ==
    Opt(Len(OfType(EntriesOf(journal, t), "cash_receipt"))
            # Len(OfType(EntriesOf(journal, t), "revenue_recognition")),
        Message("Unbalanced entries", {t}, Len(EntriesOf(journal, t))))
    \o InconsistentAmounts(journal, t)

BalanceWarnings(journal) ==
    LET ids == JournalIds(journal)
    IN FlattenSeq([k \in 1..Len(ids) |-> BalanceWarningsFor(journal, ids[k])])

\* validate_matching_consistency
FirstOf(match, t) ==
    LET Is(r) == r.transaction_id = t IN Head(SelectSeq(match, Is))

ConsistencyWarnings(journal, match) ==
    LET jt == Range(Column(journal, "transaction_id"))
        mt == Range(Column(match, "transaction_id"))
    IN Opt(jt \ mt # {},
           Message("Transactions in journal but not in match suggestions",
                   jt \ mt, 0))
       \o Opt(mt \ jt # {},
              Message("Transactions in match suggestions but not in journal",
                      mt \ jt, 0))

CommonTransactions(journal, match) ==
    Range(Column(journal, "transaction_id"))
        \cap Range(Column(match, "transaction_id"))

AmountMismatch(journal, match, t) ==
    Opt(~IsNaN(FirstOf(match, t).matched_amount)
        /\ Abs(CashAmount(journal, t) - FirstOf(match, t).matched_amount) > 1,
        Message("Amount mismatch", {t}, 0))

ScoreMismatch(journal, match, t) ==
    Opt(/\ ~IsNaN(Head(EntriesOf(journal, t)).match_score)
        /\ ~IsNaN(FirstOf(match, t).match_score)
        /\ Head(EntriesOf(journal, t)).match_score
               # FirstOf(match, t).match_score,
        Message("Score mismatch", {t}, 0))

\* validate_amount_consistency
OutlierWarnings(journal) ==
    LET Is(r) == IsOutlier(r.amount, Column(journal, "amount"))
        rows == SelectSeq(journal, Is)
    IN [k \in 1..Len(rows) |->
           Message("Outlier amount", {rows[k].transaction_id},
                   rows[k].amount)]

AmountConsistencyWarnings(journal) ==
    LET ids == JournalIds(journal)
    IN FlattenSeq([k \in 1..Len(ids) |-> InconsistentAmounts(journal, ids[k])])
       \o OutlierWarnings(journal)

\* validate_duplicate_entries: df.duplicated(subset, keep=False)
DuplicatedEntries(journal) ==
    {i \in 1..Len(journal) :
        \E j \in 1..Len(journal) :
            /\ j # i
            /\ journal[j].transaction_id = journal[i].transaction_id
            /\ journal[j].entry_type = journal[i].entry_type}
PotentialDuplicates(journal) ==
    {i \in 1..Len(journal) :
        \E j \in 1..Len(journal) :
            /\ j # i
            /\ journal[j].date = journal[i].date
            /\ journal[j].transaction_id = journal[i].transaction_id
            /\ journal[j].amount = journal[i].amount}

\* run_all_validations: is_valid
MatchingIsValid(vr) ==
    /\ vr.flags["file_exists"]
    /\ vr.flags["file_readable"]
    /\ vr.flags["required_columns"]
    /\ vr.flags["data_types"]
    /\ vr.flags["accounting_balance"]
    /\ vr.flags["matching_consistency"]
    /\ vr.flags["duplicate_entries"]

\* the contents the two files can have; the rows of a file that lacks a
\* required column are never looked at, and one row stands for them
JournalFiles ==
    {f \in [columns : JournalColumnSets,
            rows : SeqUpTo(ValidatorJournalRows, MaxValidatorRows)] :
        f.columns = JournalRequiredColumns \/ Len(f.rows) <= 1}
MatchFiles ==
    {f \in [columns : MatchColumnSets,
            rows : SeqUpTo(ValidatorMatchRows, MaxMatchRows)] :
        f.columns = MatchRequiredColumns \/ Len(f.rows) <= 1}

\* run_all_validations: the return after validate_required_columns
MatchingStopsAfterColumns_Never(vr) == FALSE
MatchingStopsAfterColumns(vr) == ~vr.flags["required_columns"]

MatchingValidateFileExists ==
    /\ entry = "matching_validator" /\ pc = "v_start"
    /\ stages_run' = Append(stages_run, "validate_file_exists")
    /\ IF input_file # "missing"
       THEN /\ validation_results' =
                   SetFlag(validation_results, "file_exists", TRUE)
            /\ pc' = "v_exists"
       ELSE /\ validation_results' =
                   AddErrors(validation_results,
                             <<Message("Journal file not found", {}, 0)>>)
            /\ pc' = "v_returned"
    /\ UNCHANGED <<entry, converterVars, twoRunsVars, pipelineVars,
                   validatorEnv, validated_df, validated_columns, other_df,
                   other_columns, verdict>>

MatchingValidateFileReadable ==
    /\ entry = "matching_validator" /\ pc = "v_exists"
    /\ stages_run' = Append(stages_run, "validate_file_readable")
    /\ IF input_file = "unreadable"
       THEN /\ validation_results' =
                   AddErrors(validation_results,
                             <<Message("File not readable", {}, 0)>>)
            /\ pc' = "v_returned"
            /\ UNCHANGED <<validated_df, validated_columns, other_df,
                           other_columns>>
       ELSE /\ \E f \in JournalFiles :
                   /\ validated_df' = f.rows
                   /\ validated_columns' = f.columns
            /\ IF other_file # "ok"
               THEN /\ validation_results' =
                           AddErrors(
                               SetFlag(validation_results, "file_readable",
                                       TRUE),
                               <<Message("File not readable", {}, 0)>>)
                    /\ pc' = "v_returned"
                    /\ UNCHANGED <<other_df, other_columns>>
               ELSE /\ \E g \in MatchFiles :
                           /\ other_df' = g.rows
                           /\ other_columns' = g.columns
                    /\ validation_results' =
                           SetFlag(validation_results, "file_readable", TRUE)
                    /\ pc' = "v_readable"
    /\ UNCHANGED <<entry, converterVars, twoRunsVars, pipelineVars,
                   validatorEnv, verdict>>

MatchingValidateRequiredColumns ==
    /\ entry = "matching_validator" /\ pc = "v_readable"
    /\ stages_run' = Append(stages_run, "validate_required_columns")
    /\ validation_results' =
           IF MissingFrom(JournalRequiredColumns, validated_columns) # {}
           THEN AddErrors(validation_results,
                    <<Message("Missing required columns in journal",
                              MissingFrom(JournalRequiredColumns,
                                          validated_columns), 0)>>)
           ELSE IF MissingFrom(MatchRequiredColumns, other_columns) # {}
           THEN AddErrors(validation_results,
                    <<Message("Missing required columns in match suggestions",
                              MissingFrom(MatchRequiredColumns,
                                          other_columns), 0)>>)
           ELSE SetFlag(validation_results, "required_columns", TRUE)
    /\ pc' = IF MatchingStopsAfterColumns(validation_results')
             THEN "v_returned" ELSE "v_columns"
    /\ UNCHANGED <<entry, converterVars, twoRunsVars, pipelineVars,
                   validatorEnv, validated_df, validated_columns, other_df,
                   other_columns, verdict>>

MatchingValidateDataTypes ==
    /\ entry = "matching_validator" /\ pc = "v_columns"
    /\ stages_run' = Append(stages_run, "validate_data_types")
    /\ LET errors == MatchingDataTypeErrors(validated_df, other_df)
       IN validation_results' =
              IF errors = <<>>
              THEN SetFlag(validation_results, "data_types", TRUE)
              ELSE AddErrors(validation_results, errors)
    /\ pc' = "v_types"
    /\ UNCHANGED <<entry, converterVars, twoRunsVars, pipelineVars,
                   validatorEnv, validated_df, validated_columns, other_df,
                   other_columns, verdict>>

\* validate_accounting_balance: the test of the two totals
BalanceMismatch_Exact(debit, credit) == debit # credit
BalanceMismatch(debit, credit) == Abs(debit - credit) > 1

MatchingValidateAccountingBalance ==
    /\ entry = "matching_validator" /\ pc = "v_types"
    /\ stages_run' = Append(stages_run, "validate_accounting_balance")
    /\ LET debit == DebitTotal(validated_df)
           credit == CreditTotal(validated_df)
           totals == SetAggregate(
                         SetAggregate(validation_results, "total_debit",
                                      debit),
                         "total_credit", credit)
           ids == JournalIds(validated_df)
           warnings == BalanceWarnings(validated_df)
       IN IF IsText(debit) \/ IsText(credit)
          THEN validation_results' = totals /\ pc' = "v_raised"
          ELSE IF BalanceMismatch(debit, credit)
          THEN /\ validation_results' =
                      AddErrors(totals,
                          <<Message("Accounting balance mismatch", {}, 0)>>)
               /\ pc' = "v_balance"
          ELSE IF \E k \in 1..Len(ids) : AmountsRaise(validated_df, ids[k])
          THEN validation_results' = totals /\ pc' = "v_raised"
          ELSE /\ validation_results' =
                      IF warnings = <<>>
                      THEN SetFlag(totals, "accounting_balance", TRUE)
                      ELSE AddWarnings(totals, warnings)
               /\ pc' = "v_balance"
    /\ UNCHANGED <<entry, converterVars, twoRunsVars, pipelineVars,
                   validatorEnv, validated_df, validated_columns, other_df,
                   other_columns, verdict>>

\* the common transaction ids are visited in the order of a Python set
MatchingValidateMatchingConsistency ==
    /\ entry = "matching_validator" /\ pc = "v_balance"
    /\ stages_run' = Append(stages_run, "validate_matching_consistency")
    /\ \E order \in OrdersOf(CommonTransactions(validated_df, other_df)) :
           LET errors ==
                   FlattenSeq([k \in 1..Len(order) |->
                       AmountMismatch(validated_df, other_df, order[k])])
               warnings ==
                   ConsistencyWarnings(validated_df, other_df)
                   \o FlattenSeq([k \in 1..Len(order) |->
                          ScoreMismatch(validated_df, other_df, order[k])])
           IN IF \E k \in 1..Len(order) :
                     IsText(CashAmount(validated_df, order[k]))
              THEN /\ pc' = "v_raised"
                   /\ UNCHANGED validation_results
              ELSE /\ validation_results' =
                          AddWarnings(
                              IF errors = <<>>
                              THEN SetFlag(validation_results,
                                           "matching_consistency", TRUE)
                              ELSE AddErrors(validation_results, errors),
                              warnings)
                   /\ pc' = "v_matching"
    /\ UNCHANGED <<entry, converterVars, twoRunsVars, pipelineVars,
                   validatorEnv, validated_df, validated_columns, other_df,
                   other_columns, verdict>>

MatchingValidateAmountConsistency ==
    /\ entry = "matching_validator" /\ pc = "v_matching"
    /\ stages_run' = Append(stages_run, "validate_amount_consistency")
    /\ IF TextColumn(validated_df, "amount")
       THEN /\ pc' = "v_raised"
            /\ UNCHANGED validation_results
       ELSE /\ validation_results' =
                   IF AmountConsistencyWarnings(validated_df) = <<>>
                   THEN SetFlag(validation_results, "amount_consistency",
                                TRUE)
                   ELSE AddWarnings(validation_results,
                                    AmountConsistencyWarnings(validated_df))
            /\ pc' = "v_amounts"
    /\ UNCHANGED <<entry, converterVars, twoRunsVars, pipelineVars,
                   validatorEnv, validated_df, validated_columns, other_df,
                   other_columns, verdict>>

MatchingValidateDuplicateEntries ==
    /\ entry = "matching_validator" /\ pc = "v_amounts"
    /\ stages_run' = Append(stages_run, "validate_duplicate_entries")
    /\ validation_results' =
           IF DuplicatedEntries(validated_df) # {}
           THEN AddErrors(validation_results,
                    <<Message("Duplicate entries found", {},
                              Cardinality(DuplicatedEntries(validated_df)))>>)
           ELSE SetFlag(
                    AddWarnings(validation_results,
                        Opt(PotentialDuplicates(validated_df) # {},
                            Message("Potential duplicate entries found", {},
                                Cardinality(
                                    PotentialDuplicates(validated_df))))),
                    "duplicate_entries", TRUE)
    /\ pc' = "v_duplicates"
    /\ UNCHANGED <<entry, converterVars, twoRunsVars, pipelineVars,
                   validatorEnv, validated_df, validated_columns, other_df,
                   other_columns, verdict>>

\* calculate_summary and the verdict of run_all_validations
MatchingCalculateSummary ==
    /\ entry = "matching_validator" /\ pc = "v_duplicates"
    /\ stages_run' = Append(stages_run, "calculate_summary")
    /\ validation_results' =
           SetAggregate(validation_results, "total_entries",
                        Len(validated_df))
    /\ verdict' = IF MatchingIsValid(validation_results')
                  THEN "valid" ELSE "invalid"
    /\ pc' = "v_done"
    /\ UNCHANGED <<entry, converterVars, twoRunsVars, pipelineVars,
                   validatorEnv, validated_df, validated_columns, other_df,
                   other_columns>>

NextMatchingValidator ==
    \/ MatchingValidateFileExists
    \/ MatchingValidateFileReadable
    \/ MatchingValidateRequiredColumns
    \/ MatchingValidateDataTypes
    \/ MatchingValidateAccountingBalance
    \/ MatchingValidateMatchingConsistency
    \/ MatchingValidateAmountConsistency
    \/ MatchingValidateDuplicateEntries
    \/ MatchingCalculateSummary

(***************************************************************************)
(* BankDataValidator (src/src/data_processing/bank_data_validator.py).     *)
(* matching_confidence is in thousandths.                                  *)
(***************************************************************************)
BankValidatorColumns ==
    {"Transaction_Date", "Client_Name", "Amount", "Transaction_Type",
     "processed_at", "transaction_id", "year", "month", "amount_category",
     "matching_status", "matching_confidence"}
BankValidatorColumnSets ==
    {BankValidatorColumns, BankValidatorColumns \ {"Amount"},
     BankValidatorColumns \ {"transaction_id", "matching_status"}}

YEAR_MIN == 2020
YEAR_MAX == 2030
MONTH_MIN == 1
MONTH_MAX == 12
CONFIDENCE_THRESHOLD_DEFAULT == 8
ValidMatchingStatuses ==
    {"matched", "unmatched", "matching_error", "no_ar_data"}

\* the transaction ids of the model and the ones among them that
\* ^TXN_\d{8}_\d{4}$ matches
TXN_ID_1 == "TXN_20240601_0001"
TXN_ID_2 == "TXN_20240601_0002"
TXN_ID_ROW == "TXN_0_A"
MatchesTxnIdPattern(id) == id \in {TXN_ID_1, TXN_ID_2}

\* the days of the model in their order; datetime.now() is Today
DayOf(d) ==
    CASE d = EarlierDate -> 1
      [] d = BankDate -> 2
      [] d = ProcessedDate -> 3
      [] d = FutureDate -> 5
      [] OTHER -> 0
Today == 4

BankValidatorRow(id, a, category, status, confidence) ==
    [Transaction_Date |-> BankDate, Client_Name |-> "A", Amount |-> a,
     Transaction_Type |-> TYPE_DEPOSIT, processed_at |-> ProcessedDate,
     transaction_id |-> id, year |-> 2024, month |-> 6,
     amount_category |-> category, matching_status |-> status,
     matching_confidence |-> confidence]

GoodBankRow == BankValidatorRow(TXN_ID_1, 109000, "medium", "matched", 910)

BankValidatorRows ==
    {GoodBankRow,
     BankValidatorRow(TXN_ID_2, 109000, "medium", "matched", 910),
     BankValidatorRow(TXN_ID_1, 115000, "medium", "unmatched", 0),
     BankValidatorRow(TXN_ID_2, 0, "small", "no_ar_data", 0),
     BankValidatorRow(TXN_ID_ROW, 109000, "medium", "matching_error", 0),
     BankValidatorRow(TXN_ID_2, 109000, "medium", "pending", 0),
     BankValidatorRow(TXN_ID_2, 109000, "medium", "matched", 500),
     BankValidatorRow(TXN_ID_2, 109000, "medium", "matched", 0),
     BankValidatorRow(TXN_ID_2, 109000, "medium", "unmatched", 900),
     BankValidatorRow(TXN_ID_2, 109000, "medium", "matched", 1100),
     BankValidatorRow(TXN_ID_2, 109000, "small", "matched", 910),
     [GoodBankRow EXCEPT !.Transaction_Type = TYPE_WITHDRAWAL],
     [GoodBankRow EXCEPT !.Transaction_Date = BadDate],
     [GoodBankRow EXCEPT !.Transaction_Date = FutureDate],
     [GoodBankRow EXCEPT !.month = 13],
     [GoodBankRow EXCEPT !.processed_at = EarlierDate],
     [GoodBankRow EXCEPT !.Amount = AmountText]}

BankValidatorFiles ==
    {f \in [columns : BankValidatorColumnSets,
            rows : SeqUpTo(BankValidatorRows, MaxValidatorRows)] :
        f.columns = BankValidatorColumns \/ Len(f.rows) <= 1}

\* validate_data_types: the errors, in the order of the checks
BankDataTypeErrors(tbl) ==
    Opt(\E i \in 1..Len(tbl) : tbl[i].Transaction_Date = BadDate,
        Message("Transaction_Date format invalid", {}, 0))
    \o (IF ~NumericColumn(tbl, "Amount")
        THEN <<Message("Amount must be numeric", {}, 0)>>
        ELSE Opt(~AllPositive(tbl, "Amount"),
                 Message("Amount must be positive", {}, 0)))
    \o Opt(\E i \in 1..Len(tbl) : tbl[i].Transaction_Type # TYPE_DEPOSIT,
           Message("All transactions must be deposit type", {}, 0))
    \o Opt(\E i \in 1..Len(tbl) : ~MatchesTxnIdPattern(tbl[i].transaction_id),
           Message("transaction_id format invalid", {}, 0))
    \o Opt(~AllBetween(tbl, "year", YEAR_MIN, YEAR_MAX),
           Message("year out of valid range", {}, 0))
    \o Opt(~AllBetween(tbl, "month", MONTH_MIN, MONTH_MAX),
           Message("month out of valid range", {}, 0))
    \o Opt(~AllBetween(tbl, "matching_confidence", MATCH_SCORE_MIN * 100,
                       MATCH_SCORE_MAX * 100),
           Message("matching_confidence out of valid range", {}, 0))

\* detect_outliers on Amount, the amounts counted in thousands
Thousands(xs) == [i \in 1..Len(xs) |-> xs[i] \div 1000]
BankOutlierWarnings(tbl) ==
    LET Is(r) == IsOutlier(r.Amount \div 1000, Thousands(Column(tbl, "Amount")))
        rows == SelectSeq(tbl, Is)
    IN [k \in 1..Len(rows) |->
           Message("Outlier amount", {rows[k].transaction_id}, rows[k].Amount)]

LowConfidenceWarnings(tbl) ==
    LET Is(r) == /\ r.matching_status = "matched"
                 /\ Lt(r.matching_confidence,
                       CONFIDENCE_THRESHOLD_DEFAULT * 100)
        rows == SelectSeq(tbl, Is)
    IN [k \in 1..Len(rows) |->
           Message("Low confidence match", {rows[k].transaction_id},
                   rows[k].matching_confidence)]

FutureDated(tbl) ==
    {i \in 1..Len(tbl) : DayOf(tbl[i].Transaction_Date) > Today}

\* validate_data_ranges
BankDataRangeWarnings(tbl) ==
    BankOutlierWarnings(tbl)
    \o LowConfidenceWarnings(tbl)
    \o Opt(FutureDated(tbl) # {},
           Message("Future transaction dates found", {},
                   Cardinality(FutureDated(tbl))))

\* the Transaction_Date column is still text after a failed pd.to_datetime
DatesAreText(tbl) == \E i \in 1..Len(tbl) : tbl[i].Transaction_Date = BadDate

\* validate_duplicates
DuplicatedIds(tbl) ==
    {i \in 1..Len(tbl) :
        \E j \in 1..Len(tbl) :
            j # i /\ tbl[j].transaction_id = tbl[i].transaction_id}
DuplicatedTransactions(tbl) ==
    {i \in 1..Len(tbl) :
        \E j \in 1..Len(tbl) :
            /\ j # i
            /\ tbl[j].Transaction_Date = tbl[i].Transaction_Date
            /\ tbl[j].Client_Name = tbl[i].Client_Name
            /\ tbl[j].Amount = tbl[i].Amount}

\* validate_matching_consistency
InvalidStatuses(tbl) ==
    Range(Column(tbl, "matching_status")) \ ValidMatchingStatuses
MatchedWithZeroConfidence(tbl) ==
    {i \in 1..Len(tbl) : /\ tbl[i].matching_status = "matched"
                         /\ tbl[i].matching_confidence = 0}
UnmatchedWithHighConfidence(tbl) ==
    {i \in 1..Len(tbl) : /\ tbl[i].matching_status = "unmatched"
                         /\ Gt(tbl[i].matching_confidence, 500)}
BankConsistencyWarnings(tbl) ==
    Opt(MatchedWithZeroConfidence(tbl) # {},
        Message("Matched transactions with zero confidence", {},
                Cardinality(MatchedWithZeroConfidence(tbl))))
    \o Opt(UnmatchedWithHighConfidence(tbl) # {},
           Message("Unmatched transactions with high confidence", {},
                   Cardinality(UnmatchedWithHighConfidence(tbl))))

\* validate_amount_consistency
AmountVariations(tbl) ==
    {tbl[i].transaction_id : i \in
        {i \in 1..Len(tbl) :
            \E j \in 1..Len(tbl) :
                /\ tbl[j].transaction_id = tbl[i].transaction_id
                /\ tbl[j].Amount # tbl[i].Amount}}
AmountsOfCategory(tbl, category) ==
    {tbl[i].Amount : i \in
        {i \in 1..Len(tbl) : tbl[i].amount_category = category}}
BankAmountWarnings(tbl) ==
    Opt(AmountVariations(tbl) # {},
        Message("Amount variations for same transaction_id",
                AmountVariations(tbl), 0))
    \o Opt(\E a \in AmountsOfCategory(tbl, "small") : a >= 100000,
           Message("Small category contains amounts >= 100,000 yen", {}, 0))
    \o Opt(\E a \in AmountsOfCategory(tbl, "medium") :
               a < AMOUNT_SMALL_MAX \/ a >= AMOUNT_MEDIUM_MAX,
           Message("Medium category contains amounts outside range", {}, 0))
    \o Opt(\E a \in AmountsOfCategory(tbl, "large") : a < AMOUNT_MEDIUM_MAX,
           Message("Large category contains amounts below range", {}, 0))

\* validate_date_consistency
InconsistentDates(tbl) ==
    {i \in 1..Len(tbl) :
        \/ tbl[i].year # YearOf(tbl[i].Transaction_Date)
        \/ tbl[i].month # MonthOf(tbl[i].Transaction_Date)}
FutureProcessing(tbl) ==
    {i \in 1..Len(tbl) : DayOf(tbl[i].processed_at) > Today}
InvalidOrder(tbl) ==
    {i \in 1..Len(tbl) :
        DayOf(tbl[i].Transaction_Date) > DayOf(tbl[i].processed_at)}
BankDateWarnings(tbl) ==
    Opt(InconsistentDates(tbl) # {},
        Message("Date inconsistency found", {},
                Cardinality(InconsistentDates(tbl))))
    \o Opt(FutureProcessing(tbl) # {},
           Message("Future processing timestamps found", {},
                   Cardinality(FutureProcessing(tbl))))
    \o Opt(InvalidOrder(tbl) # {},
           Message("Transaction date after processing date", {},
                   Cardinality(InvalidOrder(tbl))))

\* run_all_validations: is_valid
BankIsValid(vr) ==
    /\ vr.flags["file_exists"]
    /\ vr.flags["file_readable"]
    /\ vr.flags["required_columns"]
    /\ vr.flags["data_types"]
    /\ vr.flags["duplicates"]
    /\ vr.flags["matching_consistency"]

\* run_all_validations: the return after validate_required_columns
BankStopsAfterColumns_Never(vr) == FALSE
BankStopsAfterColumns(vr) == ~vr.flags["required_columns"]

BankValidateFileExists ==
    /\ entry = "bank_validator" /\ pc = "v_start"
    /\ stages_run' = Append(stages_run, "validate_file_exists")
    /\ validation_results' =
           SetFlag(validation_results, "file_exists", input_file # "missing")
    /\ pc' = IF input_file # "missing" THEN "v_exists" ELSE "v_returned"
    /\ UNCHANGED <<entry, converterVars, twoRunsVars, pipelineVars,
                   validatorEnv, validated_df, validated_columns, other_df,
                   other_columns, verdict>>

BankValidateFileReadable ==
    /\ entry = "bank_validator" /\ pc = "v_exists"
    /\ stages_run' = Append(stages_run, "validate_file_readable")
    /\ validation_results' =
           SetFlag(validation_results, "file_readable", input_file = "ok")
    /\ IF input_file = "ok"
       THEN /\ \E f \in BankValidatorFiles :
                   /\ validated_df' = f.rows
                   /\ validated_columns' = f.columns
            /\ pc' = "v_readable"
       ELSE /\ pc' = "v_returned"
            /\ UNCHANGED <<validated_df, validated_columns>>
    /\ UNCHANGED <<entry, converterVars, twoRunsVars, pipelineVars,
                   validatorEnv, other_df, other_columns, verdict>>

BankValidateRequiredColumns ==
    /\ entry = "bank_validator" /\ pc = "v_readable"
    /\ stages_run' = Append(stages_run, "validate_required_columns")
    /\ validation_results' =
           IF MissingFrom(BankValidatorColumns, validated_columns) = {}
           THEN SetFlag(validation_results, "required_columns", TRUE)
           ELSE AddErrors(validation_results,
                    <<Message("Missing required columns",
                              MissingFrom(BankValidatorColumns,
                                          validated_columns), 0)>>)
    /\ pc' = IF BankStopsAfterColumns(validation_results')
             THEN "v_returned" ELSE "v_columns"
    /\ UNCHANGED <<entry, converterVars, twoRunsVars, pipelineVars,
                   validatorEnv, validated_df, validated_columns, other_df,
                   other_columns, verdict>>

BankValidateDataTypes ==
    /\ entry = "bank_validator" /\ pc = "v_columns"
    /\ stages_run' = Append(stages_run, "validate_data_types")
    /\ validation_results' =
           IF BankDataTypeErrors(validated_df) = <<>>
           THEN SetFlag(validation_results, "data_types", TRUE)
           ELSE AddErrors(validation_results,
                          BankDataTypeErrors(validated_df))
    /\ pc' = "v_types"
    /\ UNCHANGED <<entry, converterVars, twoRunsVars, pipelineVars,
                   validatorEnv, validated_df, validated_columns, other_df,
                   other_columns, verdict>>

\* the mean of a column of text raises, and so does the comparison of a
\* column of text with datetime.now()
BankValidateDataRanges ==
    /\ entry = "bank_validator" /\ pc = "v_types"
    /\ stages_run' = Append(stages_run, "validate_data_ranges")
    /\ IF TextColumn(validated_df, "Amount") \/ DatesAreText(validated_df)
       THEN /\ pc' = "v_raised"
            /\ UNCHANGED validation_results
       ELSE /\ validation_results' =
                   IF BankDataRangeWarnings(validated_df) = <<>>
                   THEN SetFlag(validation_results, "data_ranges", TRUE)
                   ELSE AddWarnings(validation_results,
                                    BankDataRangeWarnings(validated_df))
            /\ pc' = "v_ranges"
    /\ UNCHANGED <<entry, converterVars, twoRunsVars, pipelineVars,
                   validatorEnv, validated_df, validated_columns, other_df,
                   other_columns, verdict>>

BankValidateDuplicates ==
    /\ entry = "bank_validator" /\ pc = "v_ranges"
    /\ stages_run' = Append(stages_run, "validate_duplicates")
    /\ validation_results' =
           IF DuplicatedIds(validated_df) # {}
           THEN AddErrors(validation_results,
                    <<Message("Duplicate transaction_ids found",
                              {validated_df[i].transaction_id :
                                   i \in DuplicatedIds(validated_df)},
                              Cardinality(DuplicatedIds(validated_df)))>>)
           ELSE SetFlag(
                    AddWarnings(validation_results,
                        Opt(DuplicatedTransactions(validated_df) # {},
                            Message("Potential duplicate transactions found",
                                {},
                                Cardinality(
                                    DuplicatedTransactions(validated_df))))),
                    "duplicates", TRUE)
    /\ pc' = "v_duplicates"
    /\ UNCHANGED <<entry, converterVars, twoRunsVars, pipelineVars,
                   validatorEnv, validated_df, validated_columns, other_df,
                   other_columns, verdict>>

BankValidateMatchingConsistency ==
    /\ entry = "bank_validator" /\ pc = "v_duplicates"
    /\ stages_run' = Append(stages_run, "validate_matching_consistency")
    /\ validation_results' =
           AddWarnings(
               IF InvalidStatuses(validated_df) = {}
               THEN SetFlag(validation_results, "matching_consistency", TRUE)
               ELSE AddErrors(validation_results,
                        <<Message("Invalid matching_status values",
                                  InvalidStatuses(validated_df), 0)>>),
               BankConsistencyWarnings(validated_df))
    /\ pc' = "v_matching"
    /\ UNCHANGED <<entry, converterVars, twoRunsVars, pipelineVars,
                   validatorEnv, validated_df, validated_columns, other_df,
                   other_columns, verdict>>

BankValidateAmountConsistency ==
    /\ entry = "bank_validator" /\ pc = "v_matching"
    /\ stages_run' = Append(stages_run, "validate_amount_consistency")
    /\ validation_results' =
           IF BankAmountWarnings(validated_df) = <<>>
           THEN SetFlag(validation_results, "amount_consistency", TRUE)
           ELSE AddWarnings(validation_results,
                            BankAmountWarnings(validated_df))
    /\ pc' = "v_amounts"
    /\ UNCHANGED <<entry, converterVars, twoRunsVars, pipelineVars,
                   validatorEnv, validated_df, validated_columns, other_df,
                   other_columns, verdict>>

BankValidateDateConsistency ==
    /\ entry = "bank_validator" /\ pc = "v_amounts"
    /\ stages_run' = Append(stages_run, "validate_date_consistency")
    /\ validation_results' =
           IF BankDateWarnings(validated_df) = <<>>
           THEN SetFlag(validation_results, "date_consistency", TRUE)
           ELSE AddWarnings(validation_results,
                            BankDateWarnings(validated_df))
    /\ pc' = "v_dates"
    /\ UNCHANGED <<entry, converterVars, twoRunsVars, pipelineVars,
                   validatorEnv, validated_df, validated_columns, other_df,
                   other_columns, verdict>>

\* calculate_summary and the verdict of run_all_validations
BankCalculateSummary ==
    /\ entry = "bank_validator" /\ pc = "v_dates"
    /\ stages_run' = Append(stages_run, "calculate_summary")
    /\ LET IsMatched(r) == r.matching_status = "matched"
       IN validation_results' =
              [validation_results EXCEPT
                  !.aggregates["total_transactions"] = Len(validated_df),
                  !.aggregates["total_amount"] =
                      SumSeq(Column(validated_df, "Amount")),
                  !.aggregates["matched_amount"] =
                      SumSeq(Column(SelectSeq(validated_df, IsMatched),
                                    "Amount"))]
    /\ verdict' = IF BankIsValid(validation_results')
                  THEN "valid" ELSE "invalid"
    /\ pc' = "v_done"
    /\ UNCHANGED <<entry, converterVars, twoRunsVars, pipelineVars,
                   validatorEnv, validated_df, validated_columns, other_df,
                   other_columns>>

NextBankValidator ==
    \/ BankValidateFileExists
    \/ BankValidateFileReadable
    \/ BankValidateRequiredColumns
    \/ BankValidateDataTypes
    \/ BankValidateDataRanges
    \/ BankValidateDuplicates
    \/ BankValidateMatchingConsistency
    \/ BankValidateAmountConsistency
    \/ BankValidateDateConsistency
    \/ BankCalculateSummary

(***************************************************************************)
(* InvoiceSeedValidator                                                    *)
(* (src/src/data_processing/invoice_seed_validator.py).                    *)
(***************************************************************************)
SeedColumns ==
    {"project_id", "client_id", "client_name", "project_name", "pm_id",
     "billing_year", "billing_month", "billing_amount"}
SeedColumnSets ==
    {SeedColumns, SeedColumns \ {"billing_amount"},
     SeedColumns \ {"pm_id", "billing_month"}}
INVOICE_MONTHLY_LIMIT == 20

\* the ids of the model that ^PRJ_\d{4}$ and ^Client_\d+$ match
MatchesProjectIdPattern(id) == id \in {"PRJ_0001", "PRJ_0002", "PRJ_0003"}
MatchesClientIdPattern(id) == id \in {"Client_1", "Client_2"}

SeedRow(p, c, y, m, a) ==
    [project_id |-> p, client_id |-> c, billing_year |-> y,
     billing_month |-> m, billing_amount |-> a]

SeedRows ==
    {SeedRow("PRJ_0001", "Client_1", 2024, 6, 100),
     SeedRow("PRJ_0002", "Client_2", 2024, 6, 200),
     SeedRow("PRJ_0001", "Client_1", 2024, 7, 100),
     SeedRow("PRJ_0001", "Client_1", 2024, 6, 300),
     SeedRow("PRJ_0003", "Client_2", 2024, 6, 100),
     SeedRow("P1", "Client_1", 2024, 6, 100),
     SeedRow("PRJ_0002", "C-2", 2024, 6, 100),
     SeedRow("PRJ_0002", "Client_2", 2019, 6, 100),
     SeedRow("PRJ_0002", "Client_2", 2024, 13, 100),
     SeedRow("PRJ_0002", "Client_2", 2024, 6, 0),
     SeedRow("PRJ_0002", "Client_2", 2024, 6, AmountText)}

SeedFiles ==
    {f \in [columns : SeedColumnSets,
            rows : SeqUpTo(SeedRows, MaxValidatorRows)] :
        f.columns = SeedColumns \/ Len(f.rows) <= 1}

\* data/Project_master.csv: whether it has the project id column, and the
\* project ids in it
ProjectMasters ==
    {[has_id_column |-> FALSE, ids |-> {}],
     [has_id_column |-> TRUE, ids |-> {"PRJ_0001"}],
     [has_id_column |-> TRUE, ids |-> {"PRJ_0001", "PRJ_0002"}]}

\* validate_data_types: the errors, in the order of the checks
SeedDataTypeErrors(tbl) ==
    Opt(\E i \in 1..Len(tbl) : ~MatchesProjectIdPattern(tbl[i].project_id),
        Message("project_id format invalid", {}, 0))
    \o Opt(\E i \in 1..Len(tbl) : ~MatchesClientIdPattern(tbl[i].client_id),
           Message("client_id format invalid", {}, 0))
    \o Opt(~AllBetween(tbl, "billing_year", YEAR_MIN, YEAR_MAX),
           Message("billing_year out of valid range", {}, 0))
    \o Opt(~AllBetween(tbl, "billing_month", MONTH_MIN, MONTH_MAX),
           Message("billing_month out of valid range", {}, 0))
    \o Opt(~AllPositive(tbl, "billing_amount"),
           Message("billing_amount must be positive", {}, 0))

\* validate_data_ranges
SeedOutlierWarnings(tbl) ==
    LET Is(r) == IsOutlier(r.billing_amount, Column(tbl, "billing_amount"))
        rows == SelectSeq(tbl, Is)
    IN [k \in 1..Len(rows) |->
           Message("Outlier billing amount", {}, rows[k].billing_amount)]

InvoicesInMonth(tbl, y, m) ==
    Cardinality({i \in 1..Len(tbl) :
                    tbl[i].billing_year = y /\ tbl[i].billing_month = m})

SeedDataRangeWarnings(tbl) ==
    SeedOutlierWarnings(tbl)
    \o Opt(\E i \in 1..Len(tbl) :
               InvoicesInMonth(tbl, tbl[i].billing_year, tbl[i].billing_month)
                   > INVOICE_MONTHLY_LIMIT,
           Message("High number of invoices in a single month detected",
                   {}, 0))

\* validate_duplicates
DuplicatedProjects_SameMonth(tbl) ==
    {i \in 1..Len(tbl) :
        \E j \in 1..Len(tbl) :
            /\ j # i
            /\ tbl[j].project_id = tbl[i].project_id
            /\ tbl[j].billing_month = tbl[i].billing_month}
DuplicatedProjects(tbl) ==
    {i \in 1..Len(tbl) :
        \E j \in 1..Len(tbl) :
            j # i /\ tbl[j].project_id = tbl[i].project_id}
DuplicatedMonthly(tbl) ==
    {i \in 1..Len(tbl) :
        \E j \in 1..Len(tbl) :
            /\ j # i
            /\ tbl[j].project_id = tbl[i].project_id
            /\ tbl[j].billing_year = tbl[i].billing_year
            /\ tbl[j].billing_month = tbl[i].billing_month}

\* run_all_validations: is_valid
SeedIsValid(vr) ==
    /\ vr.flags["file_exists"]
    /\ vr.flags["file_readable"]
    /\ vr.flags["required_columns"]
    /\ vr.flags["data_types"]
    /\ vr.flags["duplicates"]

\* run_all_validations: the return after validate_required_columns
SeedStopsAfterColumns(vr) == ~vr.flags["required_columns"]

SeedValidateFileExists ==
    /\ entry = "seed_validator" /\ pc = "v_start"
    /\ stages_run' = Append(stages_run, "validate_file_exists")
    /\ validation_results' =
           SetFlag(validation_results, "file_exists", input_file # "missing")
    /\ pc' = IF input_file # "missing" THEN "v_exists" ELSE "v_returned"
    /\ UNCHANGED <<entry, converterVars, twoRunsVars, pipelineVars,
                   validatorEnv, validated_df, validated_columns, other_df,
                   other_columns, verdict>>

SeedValidateFileReadable ==
    /\ entry = "seed_validator" /\ pc = "v_exists"
    /\ stages_run' = Append(stages_run, "validate_file_readable")
    /\ validation_results' =
           SetFlag(validation_results, "file_readable", input_file = "ok")
    /\ IF input_file = "ok"
       THEN /\ \E f \in SeedFiles :
                   /\ validated_df' = f.rows
                   /\ validated_columns' = f.columns
            /\ pc' = "v_readable"
       ELSE /\ pc' = "v_returned"
            /\ UNCHANGED <<validated_df, validated_columns>>
    /\ UNCHANGED <<entry, converterVars, twoRunsVars, pipelineVars,
                   validatorEnv, other_df, other_columns, verdict>>

SeedValidateRequiredColumns ==
    /\ entry = "seed_validator" /\ pc = "v_readable"
    /\ stages_run' = Append(stages_run, "validate_required_columns")
    /\ validation_results' =
           IF MissingFrom(SeedColumns, validated_columns) = {}
           THEN SetFlag(validation_results, "required_columns", TRUE)
           ELSE AddErrors(validation_results,
                    <<Message("Missing required columns",
                              MissingFrom(SeedColumns, validated_columns),
                              0)>>)
    /\ pc' = IF SeedStopsAfterColumns(validation_results')
             THEN "v_returned" ELSE "v_columns"
    /\ UNCHANGED <<entry, converterVars, twoRunsVars, pipelineVars,
                   validatorEnv, validated_df, validated_columns, other_df,
                   other_columns, verdict>>

\* the comparison of a column of text with 0 raises
SeedValidateDataTypes ==
    /\ entry = "seed_validator" /\ pc = "v_columns"
    /\ stages_run' = Append(stages_run, "validate_data_types")
    /\ IF TextColumn(validated_df, "billing_amount")
       THEN /\ pc' = "v_raised"
            /\ UNCHANGED validation_results
       ELSE /\ validation_results' =
                   IF SeedDataTypeErrors(validated_df) = <<>>
                   THEN SetFlag(validation_results, "data_types", TRUE)
                   ELSE AddErrors(validation_results,
                                  SeedDataTypeErrors(validated_df))
            /\ pc' = "v_types"
    /\ UNCHANGED <<entry, converterVars, twoRunsVars, pipelineVars,
                   validatorEnv, validated_df, validated_columns, other_df,
                   other_columns, verdict>>

SeedValidateDataRanges ==
    /\ entry = "seed_validator" /\ pc = "v_types"
    /\ stages_run' = Append(stages_run, "validate_data_ranges")
    /\ validation_results' =
           IF SeedDataRangeWarnings(validated_df) = <<>>
           THEN SetFlag(validation_results, "data_ranges", TRUE)
           ELSE AddWarnings(validation_results,
                            SeedDataRangeWarnings(validated_df))
    /\ pc' = "v_ranges"
    /\ UNCHANGED <<entry, converterVars, twoRunsVars, pipelineVars,
                   validatorEnv, validated_df, validated_columns, other_df,
                   other_columns, verdict>>

SeedValidateDuplicates ==
    /\ entry = "seed_validator" /\ pc = "v_ranges"
    /\ stages_run' = Append(stages_run, "validate_duplicates")
    /\ validation_results' =
           IF DuplicatedProjects(validated_df) # {}
           THEN AddErrors(validation_results,
                    <<Message("Duplicate project_ids found",
                              {validated_df[i].project_id :
                                   i \in DuplicatedProjects(validated_df)},
                              Cardinality(DuplicatedProjects(validated_df)))>>)
           ELSE IF DuplicatedMonthly(validated_df) # {}
           THEN AddErrors(validation_results,
                    <<Message("Duplicate monthly billing found for projects",
                              {validated_df[i].project_id :
                                   i \in DuplicatedMonthly(validated_df)},
                              Cardinality(DuplicatedMonthly(validated_df)))>>)
           ELSE SetFlag(validation_results, "duplicates", TRUE)
    /\ pc' = "v_duplicates"
    /\ UNCHANGED <<entry, converterVars, twoRunsVars, pipelineVars,
                   validatorEnv, validated_df, validated_columns, other_df,
                   other_columns, verdict>>

\* validate_project_master_consistency: other_file is the project master
SeedValidateProjectMasterConsistency ==
    /\ entry = "seed_validator" /\ pc = "v_duplicates"
    /\ stages_run' =
           Append(stages_run, "validate_project_master_consistency")
    /\ IF other_file = "missing"
       THEN validation_results' =
                AddWarnings(validation_results,
                    <<Message("Project master file not found", {}, 0)>>)
       ELSE IF other_file = "unreadable"
       THEN validation_results' =
                AddWarnings(validation_results,
                    <<Message("Project master consistency check failed",
                              {}, 0)>>)
       ELSE \E master \in ProjectMasters :
                LET missing ==
                        Range(Column(validated_df, "project_id")) \ master.ids
                IN validation_results' =
                       IF ~master.has_id_column
                       THEN AddWarnings(validation_results,
                                <<Message(
                                    "Project master consistency check failed",
                                    {}, 0)>>)
                       ELSE SetFlag(
                                AddWarnings(validation_results,
                                    Opt(missing # {},
                                        Message("Projects not found in master",
                                                missing, 0))),
                                "project_master_consistency", TRUE)
    /\ pc' = "v_master"
    /\ UNCHANGED <<entry, converterVars, twoRunsVars, pipelineVars,
                   validatorEnv, validated_df, validated_columns, other_df,
                   other_columns, verdict>>

\* calculate_summary and the verdict of run_all_validations
SeedCalculateSummary ==
    /\ entry = "seed_validator" /\ pc = "v_master"
    /\ stages_run' = Append(stages_run, "calculate_summary")
    /\ validation_results' =
           [validation_results EXCEPT
               !.aggregates["total_amount"] =
                   SumSeq(Column(validated_df, "billing_amount")),
               !.aggregates["total_projects"] = Len(validated_df)]
    /\ verdict' = IF SeedIsValid(validation_results')
                  THEN "valid" ELSE "invalid"
    /\ pc' = "v_done"
    /\ UNCHANGED <<entry, converterVars, twoRunsVars, pipelineVars,
                   validatorEnv, validated_df, validated_columns, other_df,
                   other_columns>>

NextSeedValidator ==
    \/ SeedValidateFileExists
    \/ SeedValidateFileReadable
    \/ SeedValidateRequiredColumns
    \/ SeedValidateDataTypes
    \/ SeedValidateDataRanges
    \/ SeedValidateDuplicates
    \/ SeedValidateProjectMasterConsistency
    \/ SeedCalculateSummary

\* run_all_validations: is_valid of the validator e
ValidatorIsValid(e, vr) ==
    CASE e = "matching_validator" -> MatchingIsValid(vr)
      [] e = "bank_validator" -> BankIsValid(vr)
      [] e = "seed_validator" -> SeedIsValid(vr)

\* main() of a validator after run_all_validations has returned: the
\* report is written and the exit status is 1 when errors were recorded.
\* main() constructs the validator on a file it has just listed.
ValidatorMainExit ==
    /\ entry \in ValidatorEntryPoints
    /\ pc \in {"v_returned", "v_done"}
    /\ input_file # "missing"
    /\ artifacts' = artifacts \cup {"validation_report"}
    /\ outcome' = IF validation_results.errors # <<>>
                  THEN "exit_1" ELSE "normal"
    /\ failed_stages' =
           IF ValidatorIsValid(entry, validation_results) THEN failed_stages
           ELSE failed_stages \cup {"validation"}
    /\ pc' = "v_exited"
    /\ UNCHANGED <<entry, converterVars, twoRunsVars, journalVars, bankEnv,
                   bankVars, validatorState>>

\* an exception leaves run_all_validations; main() of the bank validator
\* catches it and calls sys.exit(1), the other two let it through
ValidatorMainRaised ==
    /\ entry \in ValidatorEntryPoints
    /\ pc = "v_raised"
    /\ outcome' = IF entry = "bank_validator" THEN "exit_1" ELSE "raised"
    /\ failed_stages' = failed_stages \cup {"validation"}
    /\ pc' = "v_aborted"
    /\ UNCHANGED <<entry, converterVars, twoRunsVars, journalVars, artifacts,
                   bankEnv, bankVars, validatorState>>

NextValidators ==
    \/ NextMatchingValidator
    \/ NextBankValidator
    \/ NextSeedValidator
    \/ ValidatorMainExit
    \/ ValidatorMainRaised

\* the three validators: run_all_validations and the end of main()
SpecValidators == InitFor(ValidatorEntryPoints) /\ [][NextValidators]_allVars

NextRuns ==
    \/ MainFindInputs
    \/ NextJournal
    \/ BankMainFindInput
    \/ NextBank
    \/ BankRerun
    \/ BankMainReturn
    \/ RpmCheckFiles
    \/ RpmAiMatch
    \/ RpmConvert
    \/ NextValidators

\* the runs of the pipeline: the two process() methods, their main()
\* functions, run_payment_matching() and the validators
SpecRuns ==
    InitFor(JournalEntryPoints \cup BankEntryPoints \cup ValidatorEntryPoints)
    /\ [][NextRuns]_allVars

(***************************************************************************)
(* MatchSuggestionConverter: the methods.                                  *)
(***************************************************************************)
\* load_invoice_data: the invoices that have both fields
IsUsableInvoice(inv) == inv.project_id # "" /\ inv.client_name # ""

\* mapping[project_id] = client_name, a later invoice replacing an earlier
ClientMappingOf(invoices) ==
    LET usable == SelectSeq(invoices, IsUsableInvoice)
        LastOf(p) ==
            CHOOSE i \in 1..Len(usable) :
                /\ usable[i].project_id = p
                /\ \A j \in (i + 1)..Len(usable) : usable[j].project_id # p
    IN [p \in {usable[i].project_id : i \in 1..Len(usable)} |->
            usable[LastOf(p)].client_name]

\* client_name_to_projects[client_name].append(project_id)
ClientNameToProjectsOf(invoices) ==
    LET usable == SelectSeq(invoices, IsUsableInvoice)
        Of(c) == LET Named(inv) == inv.client_name = c
                 IN Column(SelectSeq(usable, Named), "project_id")
    IN [c \in {usable[i].client_name : i \in 1..Len(usable)} |-> Of(c)]

\* dict.get(key, default)
GetOr(dict, key, default) ==
    IF key \in DOMAIN dict THEN dict[key] ELSE default

\* the reasons of an unmatched proposal, in the order they are appended
Reason(text, ids) == [reason |-> text, candidates |-> ids]
UnmatchedReasons(match, client_name, project_id, candidates) ==
    IF match.status # "unmatched" THEN <<>>
    ELSE (IF match.match_amount <= 0
          THEN <<Reason("amount_not_positive", <<>>)>> ELSE <<>>)
         \o (IF client_name = "Unknown"
             THEN <<Reason("client_unknown", <<>>)>> ELSE <<>>)
         \o (IF project_id = ""
             THEN <<Reason("project_id_unknown", <<>>)>> ELSE <<>>)
         \o (IF match.payment_id = ""
             THEN <<Reason("payment_id_unknown", <<>>)>> ELSE <<>>)
         \o (IF candidates # <<>>
             THEN <<Reason("candidates", candidates)>> ELSE <<>>)

\* the comment: match type, confidence, the status unless it is empty and
\* the reasons unless there are none
CommentOf(match, reasons) ==
    [type |-> match.match_type, score |-> match.confidence_score,
     status |-> match.status, reasons |-> reasons]

CsvRowOf(match, project_id, row_client, reasons) ==
    [transaction_id |-> TxnId(match.payment_id, project_id),
     project_id |-> project_id,
     client_name |-> row_client,
     amount |-> match.match_amount,
     matched_amount |-> match.match_amount,
     match_score |-> match.confidence_score,
     comment |-> CommentOf(match, reasons)]

\* the candidate projects of a proposal whose invoice_id is not mapped
CandidatesOf(match, mapping, name_to_projects) ==
    IF /\ GetOr(mapping, match.invoice_id, "Unknown") = "Unknown"
       /\ match.client_name # ""
    THEN GetOr(name_to_projects, match.client_name, <<>>)
    ELSE <<>>

\* the rows convert_to_csv_format appends for one proposal
RowsOfProposal(match, mapping, name_to_projects) ==
    LET mapped == GetOr(mapping, match.invoice_id, "Unknown")
        candidates == CandidatesOf(match, mapping, name_to_projects)
    IN IF Len(candidates) > 1
       THEN [i \in 1..Len(candidates) |->
                CsvRowOf(match, candidates[i], match.client_name,
                         UnmatchedReasons(match, mapped, candidates[i],
                                          candidates))]
       ELSE LET project_id == IF Len(candidates) = 1 THEN candidates[1]
                              ELSE match.invoice_id
                row_client == IF Len(candidates) = 1 THEN match.client_name
                              ELSE mapped
            IN <<CsvRowOf(match, project_id, row_client,
                          UnmatchedReasons(match, row_client, project_id,
                                           candidates))>>

RECURSIVE ConvertToCsvFormat(_, _, _)
ConvertToCsvFormat(ms, mapping, name_to_projects) ==
    IF ms = <<>> THEN <<>>
    ELSE RowsOfProposal(Head(ms), mapping, name_to_projects)
         \o ConvertToCsvFormat(Tail(ms), mapping, name_to_projects)

\* validate_data: a non-empty list whose rows have the six fields
ValidateData(rows) ==
    /\ rows # <<>>
    /\ \A i \in 1..Len(rows) : RequiredMatchColumns \subseteq DOMAIN rows[i]

\* 0 <= score <= 1
ScoreInUnitRange(score) == 0 <= score /\ score <= MATCH_SCORE_MAX

\* mutant: an out-of-range score is a warning
ValidateDataIntegrity_WarnOnly(rows) == TRUE

\* validate_data_integrity: False only for a score out of range
ValidateDataIntegrity(rows) ==
    \A i \in 1..Len(rows) : ScoreInUnitRange(rows[i].match_score)

\* f"Unknown_{project_id}"
UnknownOf(project_id) ==
    CASE project_id = "PRJ_0001" -> "Unknown_PRJ_0001"
      [] project_id = "PRJ_0002" -> "Unknown_PRJ_0002"
      [] project_id = "PRJ_0003" -> "Unknown_PRJ_0003"
      [] project_id = "PRJ_9999" -> "Unknown_PRJ_9999"
      [] OTHER -> "Unknown_"

\* str.startswith('TXN_')
StartsWithTxn(transaction_id) ==
    Len(transaction_id) > 1 /\ transaction_id[1] = "TXN"

DEFAULT_AMOUNT == 1000
DEFAULT_SCORE == 5

\* mutant: a non-positive matched_amount is left as it is
CorrectedRow_KeepsMatched(row) ==
    [row EXCEPT
        !.client_name = IF row.client_name = "Unknown"
                        THEN UnknownOf(row.project_id) ELSE @,
        !.amount = IF row.amount <= 0 THEN DEFAULT_AMOUNT ELSE @,
        !.matched_amount = IF row.amount <= 0 THEN DEFAULT_AMOUNT ELSE @,
        !.match_score = IF ScoreInUnitRange(row.match_score) THEN @
                        ELSE DEFAULT_SCORE,
        !.transaction_id = IF StartsWithTxn(row.transaction_id) THEN @
                           ELSE <<"TXN", "FIXED", row.project_id>>]

\* the corrected copy of one row
CorrectedRow(row) ==
    LET amount == IF row.amount <= 0 THEN DEFAULT_AMOUNT ELSE row.amount
    IN [row EXCEPT
           !.client_name = IF row.client_name = "Unknown"
                           THEN UnknownOf(row.project_id) ELSE @,
           !.amount = amount,
           !.matched_amount = IF row.matched_amount <= 0 THEN amount
                              ELSE IF row.amount <= 0 THEN DEFAULT_AMOUNT
                              ELSE @,
           !.match_score = IF ScoreInUnitRange(row.match_score) THEN @
                           ELSE DEFAULT_SCORE,
           !.transaction_id = IF StartsWithTxn(row.transaction_id) THEN @
                              ELSE <<"TXN", "FIXED", row.project_id>>]

\* mutant: the corrections are written into the rows of the input list
HandleDataInconsistency_InPlace(rows) ==
    [input |-> [i \in 1..Len(rows) |-> CorrectedRow(rows[i])],
     output |-> [i \in 1..Len(rows) |-> CorrectedRow(rows[i])]]

\* mutant: the rows are returned as they came
HandleDataInconsistency_NoRepair(rows) == [input |-> rows, output |-> rows]

\* handle_data_inconsistency: the list passed in, as it is after the call
\* (every correction is made on row.copy()), and the list returned
HandleDataInconsistency(rows) ==
    [input |-> rows,
     output |-> [i \in 1..Len(rows) |-> CorrectedRow(rows[i])]]

\* save_csv: the header is the keys of the first row; nothing is written
\* into the file for an empty list
CsvFileOf(rows) ==
    IF rows = <<>> THEN [fieldnames |-> {}, rows |-> <<>>]
    ELSE [fieldnames |-> DOMAIN rows[1], rows |-> rows]

(***************************************************************************)
(* convert(), step by step, and a direct call of                           *)
(* handle_data_inconsistency.                                              *)
(***************************************************************************)
\* 1. load_invoice_data: {} when the file is missing or cannot be parsed
LoadInvoiceData ==
    /\ entry = "convert"
    /\ pc = "c_start"
    /\ IF invoice_file.status = "ok"
       THEN /\ client_mapping' = ClientMappingOf(invoice_file.invoices)
            /\ client_name_to_projects' =
                   ClientNameToProjectsOf(invoice_file.invoices)
       ELSE /\ client_mapping' = <<>>
            /\ UNCHANGED client_name_to_projects
    /\ pc' = "c_invoices"
    /\ UNCHANGED <<entry, pipelineVars, validatorState, twoRunsVars,
                   converterEnv,
                   matches, csv_data, corrected_data, csv_file,
                   convert_returned>>

\* 2. load_match_suggestions: raises when the file is missing, and
\* convert() returns False
LoadMatchSuggestions ==
    /\ entry = "convert"
    /\ pc = "c_invoices"
    /\ IF proposal_file.status = "ok"
       THEN /\ matches' = proposal_file.matches
            /\ pc' = "c_loaded"
            /\ UNCHANGED convert_returned
       ELSE /\ convert_returned' = "False"
            /\ pc' = "c_done"
            /\ UNCHANGED matches
    /\ UNCHANGED <<entry, pipelineVars, validatorState, twoRunsVars,
                   converterEnv,
                   client_mapping, client_name_to_projects, csv_data,
                   corrected_data, csv_file>>

\* 3. convert_to_csv_format
ConvertStep ==
    /\ entry = "convert"
    /\ pc = "c_loaded"
    /\ csv_data' = ConvertToCsvFormat(matches, client_mapping,
                                      client_name_to_projects)
    /\ pc' = "c_converted"
    /\ UNCHANGED <<entry, pipelineVars, validatorState, twoRunsVars,
                   converterEnv,
                   client_mapping, client_name_to_projects, matches,
                   corrected_data, csv_file, convert_returned>>

\* 4. validate_data
ValidateDataStep ==
    /\ entry = "convert"
    /\ pc = "c_converted"
    /\ IF ValidateData(csv_data)
       THEN pc' = "c_valid" /\ UNCHANGED convert_returned
       ELSE pc' = "c_done" /\ convert_returned' = "False"
    /\ UNCHANGED <<entry, pipelineVars, validatorState, twoRunsVars,
                   converterEnv,
                   client_mapping, client_name_to_projects, matches,
                   csv_data, corrected_data, csv_file>>

\* 5. validate_data_integrity
ValidateDataIntegrityStep ==
    /\ entry = "convert"
    /\ pc = "c_valid"
    /\ IF ValidateDataIntegrity(csv_data)
       THEN pc' = "c_checked" /\ UNCHANGED convert_returned
       ELSE pc' = "c_done" /\ convert_returned' = "False"
    /\ UNCHANGED <<entry, pipelineVars, validatorState, twoRunsVars,
                   converterEnv,
                   client_mapping, client_name_to_projects, matches,
                   csv_data, corrected_data, csv_file>>

\* 6. handle_data_inconsistency, inside convert() or called with a row list
HandleStep ==
    /\ \/ entry = "convert" /\ pc = "c_checked" /\ pc' = "c_corrected"
       \/ entry = "handle_data_inconsistency" /\ pc = "h_start"
          /\ pc' = "h_done"
    /\ csv_data' = HandleDataInconsistency(csv_data).input
    /\ corrected_data' = HandleDataInconsistency(csv_data).output
    /\ UNCHANGED <<entry, pipelineVars, validatorState, twoRunsVars,
                   converterEnv,
                   client_mapping, client_name_to_projects, matches,
                   csv_file, convert_returned>>

\* 7. save_csv, and convert() returns True
SaveCsv ==
    /\ entry = "convert"
    /\ pc = "c_corrected"
    /\ csv_file' = <<CsvFileOf(corrected_data)>>
    /\ convert_returned' = "True"
    /\ pc' = "c_done"
    /\ UNCHANGED <<entry, pipelineVars, validatorState, twoRunsVars,
                   converterEnv,
                   client_mapping, client_name_to_projects, matches,
                   csv_data, corrected_data>>

NextConverter ==
    \/ LoadInvoiceData
    \/ LoadMatchSuggestions
    \/ ConvertStep
    \/ ValidateDataStep
    \/ ValidateDataIntegrityStep
    \/ HandleStep
    \/ SaveCsv

ConverterEntryPoints == {"convert", "handle_data_inconsistency"}

\* the Match Suggestion Normalizer: convert() and its repair method
SpecConverter == InitFor(ConverterEntryPoints) /\ [][NextConverter]_allVars

(***************************************************************************)
(* save_journal_data / save_processed_data and the write of the report, in *)
(* two runs of the same stage.  Each run has computed its table; what is   *)
(* left of process() is the two writes.                                    *)
(***************************************************************************)
TICKS_PER_SECOND == 2

\* datetime.now().strftime('%Y%m%d_%H%M%S'): the time to the second
Timestamp(now) == now \div TICKS_PER_SECOND

\* f"{prefix}_{timestamp}.csv" and f"{prefix}_{timestamp}.txt"
FileName(prefix, timestamp) == <<prefix, timestamp>>

DataPrefix ==
    IF entry = "journal_runs" THEN "journal" ELSE "processed_bank_txn"
ReportPrefix ==
    IF entry = "journal_runs" THEN "cash_matching_report"
    ELSE "bank_processing_report"

\* to_csv(path) and open(path, 'w'): a file of that name is replaced
WriteFile(files, name, r) ==
    {f \in files : f.name # name} \cup {[name |-> name, writer |-> r]}

\* save_journal_data, save_processed_data
RunSaveData(r) ==
    /\ entry \in {"journal_runs", "bank_runs"}
    /\ run_pc[r] = "counted"
    /\ LET name == FileName(DataPrefix, Timestamp(clock))
       IN /\ output_files' = WriteFile(output_files, name, r)
          /\ written' = written \cup {[name |-> name, writer |-> r]}
    /\ run_pc' = [run_pc EXCEPT ![r] = "saved"]
    /\ UNCHANGED <<entry, pc, pipelineVars, validatorState, converterVars,
                   clock>>

\* process(): the report file
RunSaveReport(r) ==
    /\ entry \in {"journal_runs", "bank_runs"}
    /\ run_pc[r] = "saved"
    /\ LET name == FileName(ReportPrefix, Timestamp(clock))
       IN /\ output_files' = WriteFile(output_files, name, r)
          /\ written' = written \cup {[name |-> name, writer |-> r]}
    /\ run_pc' = [run_pc EXCEPT ![r] = "done"]
    /\ UNCHANGED <<entry, pc, pipelineVars, validatorState, converterVars,
                   clock>>

\* time passes
Tick ==
    /\ entry \in {"journal_runs", "bank_runs"}
    /\ clock < MaxClock
    /\ clock' = clock + 1
    /\ UNCHANGED <<entry, pc, pipelineVars, validatorState, converterVars,
                   run_pc, output_files, written>>

NextTwoRuns ==
    \/ \E r \in Runs : RunSaveData(r)
    \/ \E r \in Runs : RunSaveReport(r)
    \/ Tick

\* two runs of the Journal Generator, or of the preprocessor, in any
\* interleaving
SpecTwoRuns ==
    InitFor({"journal_runs", "bank_runs"}) /\ [][NextTwoRuns]_allVars

NextStages ==
    \/ NextJournal
    \/ NextConverter

\* the Match Suggestion Normalizer and the Journal Generator that reads its
\* table
SpecStages ==
    InitFor({"process"} \cup ConverterEntryPoints) /\ [][NextStages]_allVars

(***************************************************************************)
(* Claims about the Cash Matching / Journal Generator.                     *)
(***************************************************************************)
Indices(s) == 1..Len(s)
AbsDiff(a, b) == IF a >= b THEN a - b ELSE b - a
ProcessSucceeded == pc = "done"

\* C1 (as claimed): after process() succeeds, every cash_receipt entry has
\* exactly one revenue_recognition entry with the same transaction_id, and
\* the two amounts differ by at most 1.
C1_ExactlyOneSibling ==
    ProcessSucceeded =>
        \A i \in Indices(journal_df) :
            journal_df[i].entry_type = "cash_receipt" =>
                LET siblings ==
                        {j \in Indices(journal_df) :
                            /\ journal_df[j].entry_type = "revenue_recognition"
                            /\ journal_df[j].transaction_id =
                                   journal_df[i].transaction_id}
                IN /\ Cardinality(siblings) = 1
                   /\ \A j \in siblings :
                          AbsDiff(journal_df[i].amount, journal_df[j].amount) <= 1

\* the suggestions of match_df that reach the threshold, and those below it
HighIndices ==
    {i \in Indices(match_df) : match_df[i].match_score >= confidence_threshold}
LowIndices ==
    {i \in Indices(match_df) : match_df[i].match_score < confidence_threshold}

\* C2: create_journal_entries emits, for every suggestion with match_score >=
\* threshold, one cash_receipt (debit cash, credit receivable) and one
\* revenue_recognition (debit receivable, credit sales) with the suggestion's
\* transaction_id and matched_amount, and nothing else: the entries of each
\* kind, transaction_id and amount are as many as the suggestions that ask
\* for them, and the journal has two entries per such suggestion.
C2_TwoEntriesPerHighConfidence ==
    pc = "created" =>
        /\ Len(journal_df) = 2 * Cardinality(HighIndices)
        /\ \A k \in Indices(journal_df) :
               \/ /\ journal_df[k].entry_type = "cash_receipt"
                  /\ journal_df[k].debit_account = ACCOUNT_CASH
                  /\ journal_df[k].credit_account = ACCOUNT_RECEIVABLE
               \/ /\ journal_df[k].entry_type = "revenue_recognition"
                  /\ journal_df[k].debit_account = ACCOUNT_RECEIVABLE
                  /\ journal_df[k].credit_account = ACCOUNT_SALES
        /\ \A i \in HighIndices :
               \A ty \in {"cash_receipt", "revenue_recognition"} :
                   Cardinality({k \in Indices(journal_df) :
                       /\ journal_df[k].entry_type = ty
                       /\ journal_df[k].transaction_id = match_df[i].transaction_id
                       /\ journal_df[k].amount = match_df[i].matched_amount})
                   = Cardinality({h \in HighIndices :
                       /\ match_df[h].transaction_id = match_df[i].transaction_id
                       /\ match_df[h].matched_amount = match_df[i].matched_amount})

\* C2 witness: entries were created for a suggestion whose score equals the
\* threshold.
C2_Witness ==
    /\ pc = "created"
    /\ \E i \in Indices(match_df) :
           /\ match_df[i].match_score = confidence_threshold
           /\ match_df[i].matched_amount # match_df[i].amount
    /\ Len(journal_df) >= 2

Occurrences(s, r) == Cardinality({i \in Indices(s) : s[i] = r})
RowsOf(s) == {s[i] : i \in Indices(s)}

\* C3: once process() has split the suggestions, the high-confidence rows and
\* the low-confidence rows have no row in common and together hold every
\* suggestion exactly as often as the suggestion set does.
C3_Partition ==
    pc \in {"partitioned", "created", "reviewed", "counted", "saved", "done"} =>
        /\ RowsOf(high_confidence) \cap RowsOf(low_confidence) = {}
        /\ Len(high_confidence) + Len(low_confidence) = Len(match_df)
        /\ \A r \in RowsOf(match_df) :
               Occurrences(match_df, r) =
                   Occurrences(high_confidence, r) + Occurrences(low_confidence, r)
        /\ \A r \in RowsOf(high_confidence) : r.match_score >= confidence_threshold
        /\ \A r \in RowsOf(low_confidence) : r.match_score < confidence_threshold

\* C3 witness: a split with rows on both sides, one of them at the threshold.
C3_Witness ==
    /\ pc = "partitioned"
    /\ high_confidence # <<>>
    /\ low_confidence # <<>>
    /\ \E r \in RowsOf(high_confidence) : r.match_score = confidence_threshold

\* C4: add_manual_review_entries keeps the entries already in the journal, in
\* their order, and appends one manual_review entry per suggestion below the
\* threshold, with the suggestion's amount and the pending account on both
\* sides.
C4_ManualReviewAppendOnly ==
    [][pc = "created" =>
        LET old == Len(journal_df)
            appended == (old + 1)..Len(journal_df')
        IN /\ Len(journal_df') = old + Cardinality(LowIndices)
           /\ SubSeq(journal_df', 1, old) = journal_df
           /\ \A k \in appended :
                  /\ journal_df'[k].entry_type = "manual_review"
                  /\ journal_df'[k].debit_account = ACCOUNT_PENDING
                  /\ journal_df'[k].credit_account = ACCOUNT_PENDING
           /\ \A i \in LowIndices :
                  Cardinality({k \in appended :
                      /\ journal_df'[k].transaction_id = match_df[i].transaction_id
                      /\ journal_df'[k].amount = match_df[i].amount})
                  = Cardinality({l \in LowIndices :
                      /\ match_df[l].transaction_id = match_df[i].transaction_id
                      /\ match_df[l].amount = match_df[i].amount})
    ]_allVars

\* C4 witness: manual review entries were appended after earlier entries, for
\* a suggestion whose amount is not its matched_amount.
C4_Witness ==
    /\ pc = "reviewed"
    /\ HighIndices # {}
    /\ \E i \in LowIndices : match_df[i].amount # match_df[i].matched_amount
    /\ \E k \in Indices(journal_df) : journal_df[k].entry_type = "manual_review"

EntriesOfType(t) == {k \in Indices(journal_df) : journal_df[k].entry_type = t}

\* C5: after process() succeeds, applied_matches and rejected_matches count
\* the suggestions at or above and below the threshold, total_suggestions is
\* their sum, and the journal holds applied_matches cash_receipt entries,
\* applied_matches revenue_recognition entries and rejected_matches
\* manual_review entries, and nothing else.
C5_StatisticsAgree ==
    ProcessSucceeded =>
        /\ processing_stats.applied_matches = Cardinality(HighIndices)
        /\ processing_stats.rejected_matches = Cardinality(LowIndices)
        /\ processing_stats.total_suggestions =
               processing_stats.applied_matches + processing_stats.rejected_matches
        /\ Len(journal_df) =
               2 * processing_stats.applied_matches + processing_stats.rejected_matches
        /\ Cardinality(EntriesOfType("cash_receipt")) = processing_stats.applied_matches
        /\ Cardinality(EntriesOfType("revenue_recognition")) =
               processing_stats.applied_matches
        /\ Cardinality(EntriesOfType("manual_review")) =
               processing_stats.rejected_matches

\* C5 witness: a successful run with applied and rejected suggestions.
C5_Witness ==
    /\ ProcessSucceeded
    /\ processing_stats.applied_matches >= 1
    /\ processing_stats.rejected_matches >= 1

AllFilesLoad == \A f \in InputFiles : file_status[f] = "ok"
MatchDataRead == pc \notin {"main", "start", "no_input_files"} /\ AllFilesLoad
SuggestionsInvalid ==
    \/ ~(RequiredMatchColumns \subseteq match_columns)
    \/ \E i \in Indices(match_df) :
           ~(0 <= match_df[i].match_score /\ match_df[i].match_score <= 10)
    \/ \E i \in Indices(match_df) : match_df[i].amount <= 0

\* C6: when one of the three files does not load, or the suggestions lack a
\* required column, hold a score outside [0,1] or hold an amount <= 0,
\* process() never gets past validation: no journal file is written, no
\* journal entry is built, and a run that stopped ended with an error.
C6_FailClosed ==
    (~AllFilesLoad \/ (MatchDataRead /\ SuggestionsInvalid)) =>
        /\ pc \in {"main", "start", "no_input_files", "loaded", "failed"}
        /\ artifacts = {}
        /\ journal_df = <<>>
        /\ (pc = "failed" => outcome \in {"raised", "exit_1"})

\* C6 witness: a run that failed in validation only because of an amount <= 0.
C6_Witness ==
    /\ pc = "failed"
    /\ AllFilesLoad
    /\ RequiredMatchColumns \subseteq match_columns
    /\ \A i \in Indices(match_df) :
           0 <= match_df[i].match_score /\ match_df[i].match_score <= 10
    /\ \E i \in Indices(match_df) : match_df[i].amount <= 0

\* C7 (as claimed): every journal entry has amount > 0.
C7_AmountsPositive ==
    \A k \in Indices(journal_df) : journal_df[k].amount > 0


(***************************************************************************)
(* Claims about the runs of the pipeline stages.                           *)
(***************************************************************************)
JournalRunEnded == pc \in {"done", "failed"}
BankRunEnded == pc \in {"b_done", "b_failed"}

\* C8: every run of a pipeline stage (bank preprocessing, journal
\* generation), whether it succeeds or fails, has produced its timestamped
\* text report when it ends.
C8_EveryRunWritesReport ==
    /\ JournalRunEnded => "cash_matching_report" \in artifacts
    /\ BankRunEnded => "bank_processing_report" \in artifacts

RunReturned == outcome # "running"
FailureSignalled == outcome \in {"raised", "exit_1"}

\* C9: a run in which a stage failed (the bank preprocessing, the
\* conversion of the match suggestions, a journal generation without input
\* files) ends with a failure signal, a raised error or a non-zero exit
\* status, and never as a normal completion.
C9_FailedRunSignalsFailure ==
    (RunReturned /\ failed_stages # {}) => FailureSignalled


(***************************************************************************)
(* Claims about the validators.                                            *)
(***************************************************************************)
BasicStages ==
    <<"validate_file_exists", "validate_file_readable",
      "validate_required_columns">>
BasicFlagOrder == <<"file_exists", "file_readable", "required_columns">>

\* what makes each of the three basic stages fail
FileExistsFails == input_file = "missing"
FileReadableFails ==
    \/ input_file = "unreadable"
    \/ entry = "matching_validator" /\ input_file = "ok" /\ other_file # "ok"
RequiredOf(e) ==
    CASE e = "matching_validator" -> JournalRequiredColumns
      [] e = "bank_validator" -> BankValidatorColumns
      [] e = "seed_validator" -> SeedColumns
MissingColumnsOf(e) ==
    IF RequiredOf(e) \ validated_columns # {}
    THEN RequiredOf(e) \ validated_columns
    ELSE IF e = "matching_validator"
    THEN MatchRequiredColumns \ other_columns
    ELSE {}
RequiredColumnsFails == MissingColumnsOf(entry) # {}

\* run_all_validations has stopped after its k-th stage: no later stage
\* has run, the flags of the later checks are False, the aggregates are 0
StoppedAfter(k) ==
    /\ stages_run = SubSeq(BasicStages, 1, k)
    /\ verdict = "none"
    /\ \A f \in FlagsOf(entry) \ {BasicFlagOrder[j] : j \in 1..k} :
           ~validation_results.flags[f]
    /\ \A a \in AggregatesOf(entry) : validation_results.aggregates[a] = 0

MissingColumnsNamed ==
    \E i \in 1..Len(validation_results.errors) :
        validation_results.errors[i].about = MissingColumnsOf(entry)

\* C10: in each of the three validators, when file_exists, file_readable or
\* required_columns fails, run_all_validations stops there: no later stage
\* runs, the flags of the later checks stay False, the summary aggregates
\* stay 0 and, for a missing column, an error that names the missing
\* columns is recorded.
C10_BasicFailureStops ==
    entry \in ValidatorEntryPoints =>
        /\ (Len(stages_run) >= 1 /\ FileExistsFails) => StoppedAfter(1)
        /\ (Len(stages_run) >= 2 /\ FileReadableFails) => StoppedAfter(2)
        /\ (Len(stages_run) >= 3 /\ RequiredColumnsFails) =>
               StoppedAfter(3) /\ MissingColumnsNamed

\* a validator has returned from run_all_validations after a file with a
\* missing column
C10_Witness ==
    /\ entry \in ValidatorEntryPoints
    /\ pc = "v_returned"
    /\ Len(stages_run) = 3
    /\ RequiredColumnsFails
    /\ MissingColumnsNamed

\* the check flag that a stage of run_all_validations sets
StageFlag(stage) ==
    CASE stage = "validate_file_exists" -> "file_exists"
      [] stage = "validate_file_readable" -> "file_readable"
      [] stage = "validate_required_columns" -> "required_columns"
      [] stage = "validate_data_types" -> "data_types"
      [] stage = "validate_data_ranges" -> "data_ranges"
      [] stage = "validate_duplicates" -> "duplicates"
      [] stage = "validate_duplicate_entries" -> "duplicate_entries"
      [] stage = "validate_matching_consistency" -> "matching_consistency"
      [] stage = "validate_project_master_consistency" ->
             "project_master_consistency"
      [] stage = "validate_accounting_balance" -> "accounting_balance"
      [] stage = "validate_amount_consistency" -> "amount_consistency"
      [] stage = "validate_date_consistency" -> "date_consistency"

\* the position of a stage in the order file_exists, file_readable,
\* required_columns, data types/ranges, duplicates, cross-source
\* consistency, business invariants, summary aggregation
StagePosition(stage) ==
    CASE stage = "validate_file_exists" -> 1
      [] stage = "validate_file_readable" -> 2
      [] stage = "validate_required_columns" -> 3
      [] stage \in {"validate_data_types", "validate_data_ranges"} -> 4
      [] stage \in {"validate_duplicates", "validate_duplicate_entries"} -> 5
      [] stage \in {"validate_matching_consistency",
                    "validate_project_master_consistency"} -> 6
      [] stage \in {"validate_accounting_balance",
                    "validate_amount_consistency",
                    "validate_date_consistency"} -> 7
      [] stage = "calculate_summary" -> 8

StagePassed(stage) == validation_results.flags[StageFlag(stage)]

LaterStagesOf(e) ==
    CASE e = "matching_validator" ->
            <<"validate_data_types", "validate_accounting_balance",
              "validate_matching_consistency", "validate_amount_consistency",
              "validate_duplicate_entries", "calculate_summary">>
      [] e = "bank_validator" ->
            <<"validate_data_types", "validate_data_ranges",
              "validate_duplicates", "validate_matching_consistency",
              "validate_amount_consistency", "validate_date_consistency",
              "calculate_summary">>
      [] e = "seed_validator" ->
            <<"validate_data_types", "validate_data_ranges",
              "validate_duplicates", "validate_project_master_consistency",
              "calculate_summary">>

StagesOf(e) == BasicStages \o LaterStagesOf(e)

OnlyWarnOnlyFindings ==
    /\ entry \in ValidatorEntryPoints
    /\ verdict # "none"
    /\ validation_results.errors = <<>>

\* C12: the verdict of a validator is the conjunction of the fail-closed
\* checks only: a run whose only findings are warn-only conditions ends
\* with the verdict valid.
C12_WarningsDoNotInvalidate ==
    OnlyWarnOnlyFindings => verdict = "valid"

\* the matching validator has just run validate_data_types
AfterMatchingDataTypes == entry = "matching_validator" /\ pc = "v_types"

SuggestionScoreOutOfRange ==
    \E i \in 1..Len(other_df) :
        other_df[i].match_score # NaN
        /\ (other_df[i].match_score < 0 \/ other_df[i].match_score > 10)

ScoreInUnitInterval(r) ==
    r.match_score # NaN /\ r.match_score >= 0 /\ r.match_score <= 10

AllScoresInRange ==
    /\ \A i \in 1..Len(validated_df) : ScoreInUnitInterval(validated_df[i])
    /\ \A i \in 1..Len(other_df) : ScoreInUnitInterval(other_df[i])

\* the checks of validate_data_types other than the two score ranges pass:
\* the dates parse, both amount columns are numeric and positive, the
\* entry types are known
OtherTypeChecksPass ==
    /\ validated_df # <<>> /\ other_df # <<>>
    /\ \A i \in 1..Len(validated_df) :
           /\ validated_df[i].date # BadDate
           /\ validated_df[i].amount # AmountText
           /\ validated_df[i].amount > 0
           /\ validated_df[i].entry_type \in ValidEntryTypes
    /\ \A i \in 1..Len(other_df) :
           other_df[i].amount # AmountText /\ other_df[i].amount > 0

ScoreErrorListed ==
    \E i \in 1..Len(validation_results.errors) :
        validation_results.errors[i].msg
            = "Match suggestion score out of valid range"

\* C13: in the matching validator a match suggestion with match_score
\* below 0 or above 1 makes validate_data_types fail: data_types stays
\* False and an error is listed; when every journal and suggestion score
\* is in [0,1] and the other type checks pass, data_types is True and no
\* error is added.
C13_ScoreRangeChecked ==
    AfterMatchingDataTypes =>
        /\ SuggestionScoreOutOfRange =>
               /\ ~validation_results.flags["data_types"]
               /\ ScoreErrorListed
        /\ (AllScoresInRange /\ OtherTypeChecksPass) =>
               /\ validation_results.flags["data_types"]
               /\ validation_results.errors = <<>>

\* validate_data_types has just rejected a suggestion with a score above 1
C13_Witness ==
    /\ AfterMatchingDataTypes
    /\ \E i \in 1..Len(other_df) : other_df[i].match_score = 11
    /\ ScoreErrorListed
    /\ ~validation_results.flags["data_types"]

\* validate_data_types has just accepted tables whose scores are in range
C13_WitnessAccepted ==
    /\ AfterMatchingDataTypes
    /\ AllScoresInRange /\ OtherTypeChecksPass
    /\ validation_results.flags["data_types"]

\* the project ids that occur in more than one row of the seed table
RepeatedProjectIds ==
    {p \in {validated_df[i].project_id : i \in 1..Len(validated_df)} :
        Cardinality({i \in 1..Len(validated_df) :
                        validated_df[i].project_id = p}) > 1}

SeedDuplicatesStep ==
    entry = "seed_validator" /\ pc = "v_ranges" /\ pc' = "v_duplicates"

\* C14: on seed data in which a project_id occurs more than once,
\* validate_duplicates fails: duplicates stays False and the error it
\* appends mentions every duplicated project_id; with no duplicated
\* project_id (hence no duplicated project and month) it sets duplicates
\* and adds no error.
C14_DuplicateProjectIdsRejected ==
    [][SeedDuplicatesStep =>
        /\ RepeatedProjectIds # {} =>
               /\ ~validation_results'.flags["duplicates"]
               /\ Len(validation_results'.errors)
                      = Len(validation_results.errors) + 1
               /\ LET e == validation_results'.errors[
                               Len(validation_results'.errors)]
                  IN /\ e.msg = "Duplicate project_ids found"
                     /\ e.about = RepeatedProjectIds
        /\ RepeatedProjectIds = {} =>
               /\ validation_results'.flags["duplicates"]
               /\ validation_results'.errors = validation_results.errors
      ]_allVars

\* validate_duplicates has just rejected a table with a repeated project_id
C14_Witness ==
    /\ entry = "seed_validator" /\ pc = "v_duplicates"
    /\ RepeatedProjectIds # {}
    /\ ~validation_results.flags["duplicates"]
    /\ \E i \in 1..Len(validation_results.errors) :
           /\ validation_results.errors[i].msg = "Duplicate project_ids found"
           /\ validation_results.errors[i].about = RepeatedProjectIds

\* the amounts debited to the cash account and credited to the sales
\* account, summed over the rows of the journal
CashDebited ==
    LET Is(r) == r.debit_account = ACCOUNT_CASH
    IN SumSeq(Column(SelectSeq(validated_df, Is), "amount"))
SalesCredited ==
    LET Is(r) == r.credit_account = ACCOUNT_SALES
    IN SumSeq(Column(SelectSeq(validated_df, Is), "amount"))
TotalsDifference ==
    IF CashDebited >= SalesCredited THEN CashDebited - SalesCredited
    ELSE SalesCredited - CashDebited

AccountingBalanceStep ==
    entry = "matching_validator" /\ pc = "v_types" /\ pc' = "v_balance"

\* C15: validate_accounting_balance records an error, and leaves
\* accounting_balance False, exactly when the total debited to cash and
\* the total credited to sales differ by more than 1; a difference of 0
\* or of exactly 1 is no error.
C15_BalanceToleranceOfOne ==
    [][AccountingBalanceStep =>
        /\ TotalsDifference > 1 =>
               /\ Len(validation_results'.errors)
                      = Len(validation_results.errors) + 1
               /\ validation_results'.errors[
                      Len(validation_results'.errors)].msg
                      = "Accounting balance mismatch"
               /\ ~validation_results'.flags["accounting_balance"]
        /\ TotalsDifference <= 1 =>
               validation_results'.errors = validation_results.errors
      ]_allVars

\* validate_accounting_balance has accepted totals that differ by exactly 1
C15_Witness ==
    /\ entry = "matching_validator" /\ pc = "v_balance"
    /\ TotalsDifference = 1
    /\ validation_results.flags["accounting_balance"]
    /\ validation_results.errors = <<>>

\* validate_accounting_balance has rejected totals that differ by 2
C15_WitnessRejected ==
    /\ entry = "matching_validator" /\ pc = "v_balance"
    /\ TotalsDifference = 2
    /\ \E i \in 1..Len(validation_results.errors) :
           validation_results.errors[i].msg = "Accounting balance mismatch"

(***************************************************************************)
(* Claims about the Bank Transaction Preprocessor.                         *)
(***************************************************************************)
\* process() has written the table it built
BankOutputWritten ==
    entry \in BankEntryPoints /\ "processed_bank_csv" \in artifacts

\* C16: within one batch the transaction_id values that the Bank
\* Transaction Preprocessor outputs are pairwise distinct, also for a
\* client with more than one row in the receivables ledger.
C16_TransactionIdsDistinct ==
    BankOutputWritten =>
        \A i, j \in 1..Len(processed_df) :
            i # j => processed_df[i].transaction_id
                         # processed_df[j].transaction_id

MatchStepTaken == pc = "b_metadata" /\ pc' = "b_matched"

\* the receivables ledger holds no row for the client of the bank row r
NoLedgerEntryFor(r) ==
    \A k \in 1..Len(ar_ledger.rows) : ar_ledger.rows[k].Client # r.Client_Name

\* the rows of the table after the matching step that come from the
\* cleaned row with index idx
RowsAfterMatching(idx) ==
    {j \in 1..Len(processed_df') : processed_df'[j].idx = idx}

\* C17: every cleaned bank row leaves match_with_accounts_receivable with
\* exactly one matching_status: no row is dropped, a row whose client has
\* no entry in the receivables ledger gets no_ar_data, and a failure of
\* the matching gives every row matching_error with confidence 0.
C17_EveryRowKeepsOneStatus ==
    [][MatchStepTaken =>
        \A i \in 1..Len(processed_df) :
            /\ Cardinality(RowsAfterMatching(processed_df[i].idx)) = 1
            /\ \A j \in RowsAfterMatching(processed_df[i].idx) :
                   /\ processed_df'[j].matching_status
                          \in {"matched", "unmatched", "no_ar_data",
                               "matching_error"}
                   /\ (ar_ledger.status # "unreadable"
                       /\ NoLedgerEntryFor(processed_df[i])) =>
                          processed_df'[j].matching_status = "no_ar_data"
                   /\ ar_ledger.status = "unreadable" =>
                          /\ processed_df'[j].matching_status
                                 = "matching_error"
                          /\ processed_df'[j].matching_confidence = 0
      ]_allVars

\* a row of the table after the matching step that the merge has paired
\* with a receivable
PairedWithReceivable(r) ==
    /\ "matching_status" \in DOMAIN r
    /\ r.matching_status # NoText
    /\ ~IsNaN(r.AR_Amount)

AmountDifference(r) ==
    IF r.Amount >= r.AR_Amount THEN r.Amount - r.AR_Amount
    ELSE r.AR_Amount - r.Amount

\* the matching step has run against a ledger that could be read
MatchedAgainstLedger ==
    /\ pc \in {"b_matched", "b_counted", "b_saved", "b_done"}
    /\ ar_ledger.status = "ok"

\* every incoming payment of the input is in the output once for each
\* receivable of its client
EveryPairIsInTheOutput ==
    MatchedAgainstLedger =>
        \A i \in 1..Len(bank_df) : \A k \in 1..Len(ar_ledger.rows) :
            (/\ bank_df[i].Transaction_Type
                    \in {TYPE_DEPOSIT, TYPE_DEPOSIT_PADDED}
             /\ bank_df[i].Amount # AmountText /\ bank_df[i].Amount > 0
             /\ bank_df[i].Transaction_Date # NoText
             /\ bank_df[i].Client_Name = ar_ledger.rows[k].Client) =>
                \E j \in 1..Len(processed_df) :
                    /\ processed_df[j].idx = bank_df[i].idx
                    /\ processed_df[j].Project_ID
                           = ar_ledger.rows[k].Project_ID

\* C18: a bank row paired with a receivable of its client is matched with
\* confidence 1 - d exactly when d = |amount - receivable| / receivable is
\* at most 0.10, a difference of exactly 10% included, and is otherwise
\* unmatched with confidence 0: 109,000 against 100,000 is matched at
\* 0.91, 115,000 against 100,000 is unmatched at 0.
C18_TenPercentTolerance ==
    entry \in BankEntryPoints =>
      /\ EveryPairIsInTheOutput
      /\ \A i \in 1..Len(processed_df) :
            LET r == processed_df[i]
            IN PairedWithReceivable(r) =>
                   IF /\ r.AR_Amount > 0
                      /\ AmountDifference(r) * 10 <= r.AR_Amount
                   THEN /\ r.matching_status = "matched"
                        /\ r.matching_confidence * r.AR_Amount
                               = CONFIDENCE_SCALE
                                     * (r.AR_Amount - AmountDifference(r))
                        /\ (r.Amount = 109000 /\ r.AR_Amount = 100000) =>
                               r.matching_confidence = 910
                   ELSE /\ r.matching_status = "unmatched"
                        /\ r.matching_confidence = 0

\* a row with a difference of exactly 10% has been matched at 0.9
C18_Witness ==
    /\ entry \in BankEntryPoints
    /\ \E i \in 1..Len(processed_df) :
           /\ PairedWithReceivable(processed_df[i])
           /\ processed_df[i].Amount = 110000
           /\ processed_df[i].AR_Amount = 100000
           /\ processed_df[i].matching_status = "matched"
           /\ processed_df[i].matching_confidence = 900

\* 109,000 is matched at 0.91 and 115,000 is unmatched at 0
C18_WitnessScenario ==
    /\ entry \in BankEntryPoints
    /\ \E i, j \in 1..Len(processed_df) :
           /\ PairedWithReceivable(processed_df[i])
           /\ PairedWithReceivable(processed_df[j])
           /\ processed_df[i].Amount = 109000
           /\ processed_df[i].AR_Amount = 100000
           /\ processed_df[i].matching_confidence = 910
           /\ processed_df[j].Amount = 115000
           /\ processed_df[j].AR_Amount = 100000
           /\ processed_df[j].matching_status = "unmatched"
           /\ processed_df[j].matching_confidence = 0

\* clean_transaction_data has just returned
AfterCleaning == entry \in BankEntryPoints /\ pc = "b_cleaned"

\* an incoming payment with a date, a client and a positive amount
IncomingPayment(r) ==
    /\ r.Transaction_Type \in {TYPE_DEPOSIT, TYPE_DEPOSIT_PADDED}
    /\ r.Amount # AmountText /\ r.Amount > 0
    /\ r.Transaction_Date # NoText
    /\ r.Client_Name # NoText

KeptIndices == {i \in 1..Len(bank_df) : IncomingPayment(bank_df[i])}
DroppedIndices == {i \in 1..Len(bank_df) : ~IncomingPayment(bank_df[i])}

\* C19: clean_transaction_data keeps exactly the rows of type incoming
\* payment with a numeric amount above 0, a date and a client; every other
\* row is dropped and counted: invalid_transactions is the number of
\* dropped rows (one more for each extra row that is no incoming payment)
\* and valid_transactions + invalid_transactions = total_transactions.
C19_CleaningKeepsIncomingPayments ==
    AfterCleaning =>
        /\ {processed_df[j].idx : j \in 1..Len(processed_df)}
               = {bank_df[i].idx : i \in KeptIndices}
        /\ Len(processed_df) = Cardinality(KeptIndices)
        /\ \A j \in 1..Len(processed_df) :
               /\ processed_df[j].Transaction_Type = TYPE_DEPOSIT
               /\ processed_df[j].Amount > 0
        /\ bank_stats.valid_transactions = Cardinality(KeptIndices)
        /\ bank_stats.invalid_transactions = Cardinality(DroppedIndices)
        /\ bank_stats.valid_transactions + bank_stats.invalid_transactions
               = bank_stats.total_transactions

\* a table with one incoming payment and one withdrawal has been cleaned
C19_Witness ==
    /\ AfterCleaning
    /\ Len(bank_df) = 2
    /\ \E i \in 1..2 : bank_df[i].Transaction_Type = TYPE_WITHDRAWAL
    /\ Len(processed_df) = 1
    /\ bank_stats.invalid_transactions = 1

\* an output record without its processed_at
WithoutProcessedAt(r) == [r EXCEPT !.processed_at = NoText]
RecordsOf(df) == {WithoutProcessedAt(df[i]) : i \in 1..Len(df)}

SecondRunDone == entry = "bank_process" /\ run = 2 /\ pc = "b_done"

BankInputLacksColumn ==
    /\ entry \in BankEntryPoints
    /\ pc \notin {"b_main", "b_start", "b_loaded"}
    /\ bank_input_status = "ok"
    /\ \E c \in {"Transaction_Date", "Client_Name", "Amount",
                 "Transaction_Type"} : c \notin bank_columns

\* C21: when the bank input lacks Transaction_Date, Client_Name, Amount or
\* Transaction_Type, process() fails before the cleaning: nothing is
\* cleaned, and neither the processed CSV nor the report is written.
C21_MissingColumnFailsFast ==
    BankInputLacksColumn =>
        /\ "bank_preprocessing" \in failed_stages
        /\ pc \notin {"b_validated", "b_cleaned", "b_metadata", "b_matched",
                      "b_counted", "b_saved", "b_done"}
        /\ processed_df = <<>>
        /\ bank_stats.valid_transactions = 0
        /\ "processed_bank_csv" \notin artifacts
        /\ "bank_processing_report" \notin artifacts

\* process() has failed on a file with rows and without the Amount column
C21_Witness ==
    /\ BankInputLacksColumn
    /\ entry = "bank_process" /\ pc = "b_failed" /\ outcome = "raised"
    /\ "Amount" \notin bank_columns
    /\ bank_df # <<>>

(***************************************************************************)
(* Claims about the Match Suggestion Normalizer.                           *)
(***************************************************************************)
Converted ==
    entry = "convert"
    /\ pc \in {"c_converted", "c_valid", "c_checked", "c_corrected", "c_done"}
    /\ proposal_file.status = "ok"

\* the candidate project ids of a proposal whose project id is not in the
\* seed map
SeedCandidates(match) ==
    IF match.invoice_id \notin DOMAIN client_mapping /\ match.client_name # ""
    THEN GetOr(client_name_to_projects, match.client_name, <<>>)
    ELSE <<>>
IsAmbiguous(match) == Len(SeedCandidates(match)) > 1

\* the ways to cut the converted rows into one run of rows per proposal
Cuts ==
    {b \in [0..Len(matches) -> 0..Len(csv_data)] :
        /\ b[0] = 0
        /\ b[Len(matches)] = Len(csv_data)
        /\ \A j \in 1..Len(matches) : b[j - 1] <= b[j]}

ExplainsAmbiguity(row) ==
    \E n \in 1..Len(row.comment.reasons) :
        row.comment.reasons[n].reason = "candidates"

\* the rows b gives proposal j are its fan-out: one row per candidate
IsFanOut(b, j, explained) ==
    LET candidates == SeedCandidates(matches[j])
    IN /\ b[j] - b[j - 1] = Len(candidates)
       /\ \A i \in 1..Len(candidates) :
            /\ b[j - 1] + i <= Len(csv_data)
            /\ csv_data[b[j - 1] + i].transaction_id =
                   TxnId(matches[j].payment_id, candidates[i])
            /\ csv_data[b[j - 1] + i].project_id = candidates[i]
            /\ explained => ExplainsAmbiguity(csv_data[b[j - 1] + i])

FansOut(explained) ==
    \E b \in Cuts :
        \A j \in 1..Len(matches) :
            IsAmbiguous(matches[j]) => IsFanOut(b, j, explained)

\* C22: a proposal whose project id is not in the seed map and whose client
\* name maps to k > 1 seed projects is converted into exactly k rows, one
\* per candidate project id with transaction_id TXN_<payment>_<candidate>,
\* each with a reason in its comment that explains the ambiguity, whatever
\* the status of the proposal.
C22_AmbiguousProposalFansOut ==
    (Converted /\ pc = "c_converted") => FansOut(TRUE)

\* a converted row whose confidence score is below 0 or above 1
HasScoreOutsideUnitRange(rows) ==
    \E i \in 1..Len(rows) : rows[i].match_score < 0 \/ rows[i].match_score > 10
IntegrityChecked ==
    Converted /\ csv_data # <<>> /\ pc \in {"c_checked", "c_corrected", "c_done"}

\* C23: when a converted row has a confidence score outside [0,1],
\* convert() fails for the whole batch: once validate_data_integrity has
\* run, convert() has returned False, no CSV is written and no row has been
\* repaired (the score is not replaced by a default).
C23_ScoreOutOfRangeFailsBatch ==
    (IntegrityChecked /\ HasScoreOutsideUnitRange(csv_data)) =>
        /\ pc = "c_done"
        /\ convert_returned = "False"
        /\ csv_file = <<>>
        /\ corrected_data = <<>>

\* convert() has returned False on two rows of which only the second has
\* a score out of range
C23_Witness ==
    /\ IntegrityChecked
    /\ pc = "c_done" /\ convert_returned = "False"
    /\ Len(csv_data) = 2
    /\ csv_data[1].match_score = 9
    /\ csv_data[2].match_score = 12
    /\ csv_file = <<>>

\* handle_data_inconsistency has returned: csv_data is the list it was
\* given, corrected_data the list it returned
Handled ==
    \/ entry = "handle_data_inconsistency" /\ pc = "h_done"
    \/ entry = "convert" /\ pc = "c_corrected"
    \/ entry = "convert" /\ pc = "c_done" /\ convert_returned = "True"

HasNoDefect(row) ==
    /\ row.client_name # "Unknown"
    /\ row.amount > 0
    /\ row.matched_amount > 0
    /\ 0 <= row.match_score /\ row.match_score <= 10
    /\ row.transaction_id[1] = "TXN"

IsRepairOf(out, row) ==
    /\ out.client_name # "Unknown"
    /\ row.client_name = "Unknown" =>
           out.client_name = UnknownOf(row.project_id)
    /\ out.amount > 0
    /\ out.matched_amount > 0
    /\ row.amount <= 0 => out.amount = 1000 /\ out.matched_amount = 1000
    /\ (row.amount > 0 /\ row.matched_amount <= 0) =>
           out.matched_amount = row.amount
    /\ 0 <= out.match_score /\ out.match_score <= 10
    /\ (row.match_score < 0 \/ row.match_score > 10) => out.match_score = 5
    /\ out.transaction_id[1] = "TXN"
    /\ row.transaction_id[1] # "TXN" =>
           out.transaction_id = <<"TXN", "FIXED", row.project_id>>
    /\ HasNoDefect(row) => out = row

BuildsJournal ==
    entry = "process"
    /\ pc \in {"loaded", "validated", "filtered", "partitioned", "created",
               "reviewed", "counted", "saved"}

C26_RunsWriteDistinctArtifacts ==
    /\ \A w1 \in written : \A w2 \in written :
           w1.writer # w2.writer => w1.name # w2.name
    /\ \A w \in written : w \in output_files

(***************************************************************************)
(* Claims about a stage's output as the input of the next stage or of its  *)
(* validator.                                                              *)
(***************************************************************************)
\* the errors validate_matching_consistency records for a journal and the
\* suggestions it was built from
ConsistencyErrors(journal, match) ==
    {t \in CommonTransactions(journal, match) :
        AmountMismatch(journal, match, t) # <<>>}

\* C27: the journal process() produces from a suggestion set passes
\* validate_matching_consistency of the MatchingValidator against that same
\* suggestion set: no transaction gets an amount-mismatch error, also not
\* one whose only journal entry is a manual_review entry.
C27_JournalPassesMatchingConsistency ==
    ProcessSucceeded => ConsistencyErrors(journal_df, match_df) = {}

\* the text of a synthesized transaction_id in the processed CSV:
\* f"TXN_{row.name}_{Client_Name}"
TxnIdText(id) ==
    CASE id = <<"TXN", 0, "A">> -> "TXN_0_A"
      [] id = <<"TXN", 1, "A">> -> "TXN_1_A"
      [] id = <<"TXN", 2, "A">> -> "TXN_2_A"
      [] id = <<"TXN", 0, "X">> -> "TXN_0_X"
      [] id = <<"TXN", 1, "X">> -> "TXN_1_X"
      [] id = <<"TXN", 2, "X">> -> "TXN_2_X"
      [] OTHER -> "TXN_n_c"

\* the processed table as BankDataValidator reads it from the CSV file
AsBankCsv(df) ==
    [i \in 1..Len(df) |->
        [df[i] EXCEPT !.transaction_id = TxnIdText(df[i].transaction_id)]]

ProcessedCsvWritten ==
    entry \in BankEntryPoints /\ "processed_bank_csv" \in artifacts

\* C28: every table the Bank Transaction Preprocessor writes passes
\* validate_data_types of the BankDataValidator; in particular every
\* synthesized transaction_id is accepted by its format check.
C28_OutputPassesDataTypes ==
    ProcessedCsvWritten => BankDataTypeErrors(AsBankCsv(processed_df)) = <<>>

ConvertSucceeded == entry = "convert" /\ convert_returned = "True"

\* C29: every match table convert() writes (convert() returned True) is
\* accepted by validate_match_suggestions of the Journal Generator: the
\* file has the six required columns, every match_score is in [0,1] and
\* every amount is above 0.
C29_WrittenTableIsAccepted ==
    ConvertSucceeded =>
        /\ csv_file # <<>>
        /\ RequiredMatchColumns \subseteq csv_file[1].fieldnames
        /\ \A i \in 1..Len(csv_file[1].rows) :
               /\ csv_file[1].rows[i].match_score >= 0
               /\ csv_file[1].rows[i].match_score <= 10
               /\ csv_file[1].rows[i].amount > 0
        /\ ValidateMatchSuggestions(csv_file[1].rows, csv_file[1].fieldnames)

\* convert() has written the fan-out of a proposal with amount 0: the
\* written rows carry the default amount
C29_Witness ==
    /\ ConvertSucceeded
    /\ pc = "c_done"
    /\ Len(csv_data) = 2
    /\ csv_data[1].amount = 0
    /\ Len(csv_file[1].rows) = 2
    /\ csv_file[1].rows[1].amount = 1000
    /\ csv_file[1].rows[2].project_id = "PRJ_0003"

(***************************************************************************)
(* Claims about the verdict and the exit status of the validators.         *)
(***************************************************************************)
\* run_all_validations has run every stage and computed is_valid
FullValidationRun ==
    /\ entry \in ValidatorEntryPoints
    /\ stages_run = StagesOf(entry)
    /\ verdict # "none"

\* C30: in each validator, after a full run_all_validations, the verdict is
\* invalid exactly when the errors list is not empty, so the exit status
\* of main() (1 when errors is not empty, 0 otherwise) agrees with the
\* verdict; no run ends invalid with an empty errors list.
C30_VerdictAgreesWithErrors ==
    FullValidationRun =>
        /\ verdict = "invalid" <=> validation_results.errors # <<>>
        /\ pc = "v_exited" => (outcome = "exit_1" <=> verdict = "invalid")
====
